---- MODULE Spec2Model ----
(***************************************************************************)
(* A model of the two-phase harmonization pipeline of the repository:      *)
(*   core/schema_generator.py   UnifiedSchemaGenerator  (Phase 1)          *)
(*   core/transformer.py        SchemaTransformer       (Phase 2)          *)
(*   core/metadata_generator.py MetadataGenerator       (Phase 2)          *)
(*   main.py                    run_two_phase_harmonization                *)
(*                                                                         *)
(* A Python str is a sequence of one-character strings, so that lower(),   *)
(* replace(), re.search() and fuzz.ratio() are computed, not assumed.      *)
(* A Python dict is a sequence of entries in insertion order where the     *)
(* iteration order matters (column_mappings) and a function otherwise.     *)
(***************************************************************************)
EXTENDS Integers, Sequences, FiniteSets, TLC

VARIABLES
    pc,                 \* the position of the operation under way
    \* -- UnifiedSchemaGenerator.generate_unified_schema
    all_file_info,      \* its argument: one [filename, columns] per file
    all_columns_list,   \* sorted(list(all_columns))
    response,           \* what the inference call gave: [raised, text]
    schema,             \* the local variable schema
    validation_result,  \* the result of _validate_schema
    result,             \* the value returned (None until then)
    \* -- SchemaTransformer.transform
    unified_schema,     \* the schema the transformer was built with
    df,                 \* the cleaned table
    column_mapping,     \* the dict of _build_file_mapping
    df_transformed,     \* the table under transformation
    returned,           \* what the calls of transform returned, in call order
    \* -- MetadataGenerator.generate_metadata
    file_info,          \* its argument file_info
    transformation_log, \* its argument transformation_log
    metadata,           \* the local variable metadata, then the value returned
    \* -- run_two_phase_harmonization
    dataset_metadata,   \* the scraped metadata (None without a portal)
    files,              \* glob(uploads/*.csv) with what each file loads to
    file_index,         \* the position of the loop under way
    outputs,            \* the files written under outputs/
    metadata_catalog    \* the list metadata_catalog

schemaVars ==
    << all_file_info, all_columns_list, response, schema, validation_result, result >>

transformVars == << unified_schema, df, column_mapping, df_transformed, returned >>

metadataVars == << file_info, transformation_log, metadata >>

runVars == << dataset_metadata, files, file_index, outputs, metadata_catalog >>

vars == << pc, schemaVars, transformVars, metadataVars, runVars >>

\* ------------------------------------------------------------------------
\* Characters and strings
\* ------------------------------------------------------------------------

\* The characters of the model in code-point order (the order sorted() uses).
CharOrder ==
    << " ", "-", "0", "1",
       "A", "B", "C", "D", "E", "F", "G", "H", "I", "J", "K", "L", "M",
       "N", "O", "P", "Q", "R", "S", "T", "U", "V", "W", "X", "Y", "Z",
       "_",
       "a", "b", "c", "d", "e", "f", "g", "h", "i", "j", "k", "l", "m",
       "n", "o", "p", "q", "r", "s", "t", "u", "v", "w", "x", "y", "z" >>

UpperChars ==
    << "A", "B", "C", "D", "E", "F", "G", "H", "I", "J", "K", "L", "M",
       "N", "O", "P", "Q", "R", "S", "T", "U", "V", "W", "X", "Y", "Z" >>

LowerChars ==
    << "a", "b", "c", "d", "e", "f", "g", "h", "i", "j", "k", "l", "m",
       "n", "o", "p", "q", "r", "s", "t", "u", "v", "w", "x", "y", "z" >>

DigitChars == { "0", "1" }

CharCode(c) == CHOOSE i \in 1..Len(CharOrder) : CharOrder[i] = c

\* str.lower() on one character.
LowerChar(c) ==
    IF \E i \in 1..Len(UpperChars) : UpperChars[i] = c
    THEN LowerChars[CHOOSE i \in 1..Len(UpperChars) : UpperChars[i] = c]
    ELSE c

\* str.lower()
Lower(s) == [i \in 1..Len(s) |-> LowerChar(s[i])]

\* str.replace(c, '') for a single character c.
RECURSIVE RemoveChar(_, _)
RemoveChar(s, c) ==
    IF s = << >> THEN << >>
    ELSE IF Head(s) = c THEN RemoveChar(Tail(s), c)
         ELSE << Head(s) >> \o RemoveChar(Tail(s), c)

\* str.replace(c, d) for single characters c and d.
ReplaceChar(s, c, d) == [i \in 1..Len(s) |-> IF s[i] = c THEN d ELSE s[i]]

\* str.strip(): leading and trailing whitespace removed (the only whitespace
\* character of the model is the space).
RECURSIVE LStrip(_)
LStrip(s) == IF s # << >> /\ Head(s) = " " THEN LStrip(Tail(s)) ELSE s

RECURSIVE RStrip(_)
RStrip(s) ==
    IF s # << >> /\ s[Len(s)] = " " THEN RStrip(SubSeq(s, 1, Len(s) - 1)) ELSE s

Strip(s) == RStrip(LStrip(s))

\* \w of the regular expressions: letters, digits and the underscore.
IsWordChar(c) ==
    \/ c = "_"
    \/ c \in DigitChars
    \/ \E i \in 1..Len(UpperChars) : UpperChars[i] = c \/ LowerChars[i] = c

\* re.sub(r'[^\w\s]', '', s)
RECURSIVE RemoveSpecial(_)
RemoveSpecial(s) ==
    IF s = << >> THEN << >>
    ELSE IF IsWordChar(Head(s)) \/ Head(s) = " "
         THEN << Head(s) >> \o RemoveSpecial(Tail(s))
         ELSE RemoveSpecial(Tail(s))

\* Python's < on str: lexicographic by code point.
RECURSIVE StrLess(_, _)
StrLess(a, b) ==
    IF b = << >> THEN FALSE
    ELSE IF a = << >> THEN TRUE
    ELSE IF Head(a) = Head(b) THEN StrLess(Tail(a), Tail(b))
    ELSE CharCode(Head(a)) < CharCode(Head(b))

\* sorted(list(S)) for a set S of strings.
RECURSIVE SortedList(_)
SortedList(S) ==
    IF S = {} THEN << >>
    ELSE LET m == CHOOSE x \in S : \A y \in S \ {x} : StrLess(x, y)
         IN  << m >> \o SortedList(S \ {m})

\* The elements of a list, as a set.
Elems(seq) == { seq[i] : i \in 1..Len(seq) }

\* x in list
InList(x, seq) == \E i \in 1..Len(seq) : seq[i] = x

\* `sub in s` for strings: s contains sub as a contiguous block, at position p.
OccursAt(sub, s, p) ==
    /\ p >= 1
    /\ p + Len(sub) - 1 <= Len(s)
    /\ SubSeq(s, p, p + Len(sub) - 1) = sub

Contains(s, sub) == \E p \in 1..(Len(s) + 1) : OccursAt(sub, s, p)

\* ------------------------------------------------------------------------
\* fuzz.ratio (fuzzywuzzy over difflib.SequenceMatcher)
\* ------------------------------------------------------------------------

\* The length of the longest common run of a from i and b from j.
RECURSIVE RunLength(_, _, _, _)
RunLength(a, b, i, j) ==
    IF i > Len(a) \/ j > Len(b) THEN 0
    ELSE IF a[i] # b[j] THEN 0
    ELSE 1 + RunLength(a, b, i + 1, j + 1)

\* The maximal matching blocks << i, j, k >> of a[alo..ahi] and b[blo..bhi]:
\* a[i..i+k-1] = b[j..j+k-1], cut at the ends of the two ranges.
CommonBlocks(a, b, alo, ahi, blo, bhi) ==
    { << p[1], p[2],
         LET k == RunLength(a, b, p[1], p[2])
             m == IF ahi - p[1] + 1 < bhi - p[2] + 1
                  THEN ahi - p[1] + 1 ELSE bhi - p[2] + 1
         IN  IF k < m THEN k ELSE m >> :
      p \in { q \in (alo..ahi) \X (blo..bhi) : a[q[1]] = b[q[2]] } }

\* SequenceMatcher.find_longest_match: the longest block; of those the one
\* starting earliest in a; of those the one starting earliest in b.
LongestBlock(blocks) ==
    CHOOSE x \in blocks :
        \A y \in blocks :
            \/ x[3] > y[3]
            \/ x[3] = y[3] /\ x[1] < y[1]
            \/ x[3] = y[3] /\ x[1] = y[1] /\ x[2] <= y[2]

\* The number of matched characters of SequenceMatcher.get_matching_blocks
\* on a[alo..ahi] and b[blo..bhi]: the longest block, then the same to its
\* left and to its right.
RECURSIVE MatchCountIn(_, _, _, _, _, _)
MatchCountIn(a, b, alo, ahi, blo, bhi) ==
    LET blocks == CommonBlocks(a, b, alo, ahi, blo, bhi)
    IN  IF blocks = {} THEN 0
        ELSE LET x == LongestBlock(blocks)
             IN  MatchCountIn(a, b, alo, x[1] - 1, blo, x[2] - 1)
                 + x[3]
                 + MatchCountIn(a, b, x[1] + x[3], ahi, x[2] + x[3], bhi)

MatchCount(a, b) == MatchCountIn(a, b, 1, Len(a), 1, Len(b))

\* int(round(num / den)) for num >= 0, den > 0: Python 3 rounds a half to
\* the even neighbour.
RoundDiv(num, den) ==
    LET q == num \div den
        r == num % den
    IN  IF 2 * r < den THEN q
        ELSE IF 2 * r > den THEN q + 1
        ELSE IF q % 2 = 0 THEN q ELSE q + 1

\* fuzz.ratio(s1, s2): 100 for equal strings, 0 when one is empty, else
\* int(round(100 * 2.0 * M / T)).
FuzzRatio(s1, s2) ==
    IF s1 = s2 THEN 100
    ELSE IF Len(s1) = 0 \/ Len(s2) = 0 THEN 0
    ELSE RoundDiv(200 * MatchCount(s1, s2), Len(s1) + Len(s2))

\* ------------------------------------------------------------------------
\* Column names of the model
\* ------------------------------------------------------------------------

\* Raw column names as they appear in file headers.
Raw_Dist == << "D", "i", "s", "t" >>
Raw_Districts == << "D", "i", "s", "t", "r", "i", "c", "t", "s" >>
Raw_Location == << "L", "o", "c", "a", "t", "i", "o", "n" >>
Raw_Hing_01 == << "H", "i", "n", "g", "_", "0", "1" >>
Raw_hing_01_sp == << "h", "i", "n", "g", " ", "0", "1" >>
Raw_Year == << "Y", "e", "a", "r" >>
Raw_dist == << "d", "i", "s", "t" >>

\* The cleaned name of a header made of blanks (DataCleaner._clean_column_name
\* strips it to the empty string).
Raw_blank == << >>

\* The standard column names of the fallback pattern table.
Std_district == << "d", "i", "s", "t", "r", "i", "c", "t" >>
Std_state == << "s", "t", "a", "t", "e" >>
Std_cattle_count == << "c", "a", "t", "t", "l", "e", "_", "c", "o", "u", "n", "t" >>
Std_buffalo_count == << "b", "u", "f", "f", "a", "l", "o", "_", "c", "o", "u", "n", "t" >>
Std_goat_count == << "g", "o", "a", "t", "_", "c", "o", "u", "n", "t" >>
Std_sheep_count == << "s", "h", "e", "e", "p", "_", "c", "o", "u", "n", "t" >>
Std_year == << "y", "e", "a", "r" >>

\* The keyword table of _create_fallback_schema, in dict order. A pattern is
\* the list of its literal segments: 'bovine.*cattle' is << bovine, cattle >>.
patterns ==
    << [ standard_col |-> Std_district,
         pattern_list |-> <<
            << << "d", "i", "s", "t", "r", "i", "c", "t" >> >>,
            << << "d", "i", "s", "t" >> >>,
            << << "z", "i", "l", "l", "a" >> >>,
            << << "j", "i", "l", "l", "a" >> >>,
            << << "l", "o", "c", "a", "t", "i", "o", "n" >> >> >> ],
       [ standard_col |-> Std_state,
         pattern_list |-> <<
            << << "s", "t", "a", "t", "e" >> >>,
            << << "r", "a", "j", "y", "a" >> >>,
            << << "r", "e", "g", "i", "o", "n" >> >> >> ],
       [ standard_col |-> Std_cattle_count,
         pattern_list |-> <<
            << << "c", "a", "t", "t", "l", "e" >> >>,
            << << "g", "a", "u" >> >>,
            << << "b", "o", "v", "i", "n", "e" >>, << "c", "a", "t", "t", "l", "e" >> >>,
            << << "c", "a", "t" >> >> >> ],
       [ standard_col |-> Std_buffalo_count,
         pattern_list |-> <<
            << << "b", "u", "f", "f", "a", "l", "o" >> >>,
            << << "b", "h", "a", "i", "n", "s" >> >>,
            << << "b", "o", "v", "i", "n", "e" >>, << "b", "u", "f", "f", "a", "l", "o" >> >>,
            << << "b", "u", "f" >> >> >> ],
       [ standard_col |-> Std_goat_count,
         pattern_list |-> <<
            << << "g", "o", "a", "t" >> >>,
            << << "b", "a", "k", "r", "i" >> >>,
            << << "r", "u", "m", "i", "n", "a", "n", "t" >>, << "g", "o", "a", "t" >> >>,
            << << "g", "t" >> >> >> ],
       [ standard_col |-> Std_sheep_count,
         pattern_list |-> <<
            << << "s", "h", "e", "e", "p" >> >>,
            << << "b", "h", "e", "d" >> >>,
            << << "r", "u", "m", "i", "n", "a", "n", "t" >>, << "s", "h", "e", "e", "p" >> >>,
            << << "s", "h", "p" >> >> >> ],
       [ standard_col |-> Std_year,
         pattern_list |-> <<
            << << "y", "e", "a", "r" >> >>,
            << << "y", "r" >> >>,
            << << "v", "a", "r", "s", "h" >> >>,
            << << "d", "a", "t", "a" >>, << "y", "e", "a", "r" >> >>,
            << << "c", "e", "n", "s", "u", "s" >>, << "y", "e", "a", "r" >> >>,
            << << "s", "u", "r", "v", "e", "y" >>, << "y", "e", "a", "r" >> >> >> ] >>

\* ------------------------------------------------------------------------
\* Python values: ordered dicts, JSON values, schemas
\* ------------------------------------------------------------------------

\* column_mappings is a dict in insertion order: a list of entries
\* [standard_col, variations] with pairwise distinct keys.
DictHas(d, k) == \E i \in 1..Len(d) : d[i].standard_col = k

DictIndex(d, k) == CHOOSE i \in 1..Len(d) : d[i].standard_col = k

DictGet(d, k) == d[DictIndex(d, k)].variations

\* d[k] = v: an existing key keeps its place, a new key goes last.
DictSet(d, k, v) ==
    IF DictHas(d, k)
    THEN [d EXCEPT ![DictIndex(d, k)].variations = v]
    ELSE Append(d, [standard_col |-> k, variations |-> v])

\* list(d.keys())
DictKeys(d) == [i \in 1..Len(d) |-> d[i].standard_col]

\* column_types is a dict whose order is never read: a function.
EmptyDict == << >>

TypeSet(ct, k, v) == (k :> v) @@ ct

\* A parsed JSON value. kind "dict" carries the top-level keys that are
\* present; kind "list" is a non-empty list (a truthy value that is no dict);
\* kind "null" is None.
JsonValue(kind, keys, domain, cm, ct) ==
    [ kind |-> kind, keys |-> keys, domain |-> domain,
      column_mappings |-> cm, column_types |-> ct ]

None == JsonValue("null", {}, "", << >>, EmptyDict)

NonEmptyList == JsonValue("list", {}, "", << >>, EmptyDict)

EmptyJsonDict == JsonValue("dict", {}, "", << >>, EmptyDict)

\* bool(v) as `if schema:` takes it.
Truthy(v) ==
    \/ v.kind = "list"
    \/ v.kind = "dict" /\ v.keys # {}

\* ------------------------------------------------------------------------
\* The inference service's response text and _parse_response
\* ------------------------------------------------------------------------

\* A response text is a list of tokens: "ws" (whitespace), "prose" (text that
\* is no JSON), "fence_json" (```json), "fence" (```), and "json" (the text of
\* one JSON value v).
Tok(t) == [ t |-> t, v |-> None ]

JsonTok(v) == [ t |-> "json", v |-> v ]

IsFence(tok) == tok.t \in { "fence", "fence_json" }

\* The position of the first token of text at or after p that satisfies
\* Test, or Len(text) + 1.
FirstTokenFrom(text, p, Test(_)) ==
    IF \E i \in p..Len(text) : Test(text[i])
    THEN CHOOSE i \in p..Len(text) :
            Test(text[i]) /\ \A j \in p..(i - 1) : ~Test(text[j])
    ELSE Len(text) + 1

\* cleaned.split("```json")[1].split("```")[0]: what follows the first
\* ```json, up to the next fence of either kind.
AfterJsonFence(text) ==
    LET a == FirstTokenFrom(text, 1, LAMBDA tok : tok.t = "fence_json")
        b == FirstTokenFrom(text, a + 1, IsFence)
    IN  SubSeq(text, a + 1, b - 1)

\* cleaned.split("```")[1].split("```")[0]: what lies between the first
\* fence and the next.
AfterFence(text) ==
    LET a == FirstTokenFrom(text, 1, IsFence)
        b == FirstTokenFrom(text, a + 1, IsFence)
    IN  SubSeq(text, a + 1, b - 1)

\* The markdown stripping shared by both _parse_response methods.
StripMarkdown(text) ==
    IF \E i \in 1..Len(text) : text[i].t = "fence_json" THEN AfterJsonFence(text)
    ELSE IF \E i \in 1..Len(text) : text[i].t = "fence" THEN AfterFence(text)
    ELSE text

\* str.strip() on a token list.
StripWs(text) ==
    LET keep == { i \in 1..Len(text) : text[i].t # "ws" }
    IN  IF keep = {} THEN << >>
        ELSE SubSeq(text, CHOOSE i \in keep : \A j \in keep : i <= j,
                          CHOOSE i \in keep : \A j \in keep : i >= j)

\* json.loads succeeds exactly on the text of one JSON value.
JsonLoadsOk(text) == Len(text) = 1 /\ text[1].t = "json"

\* What _parse_response returns when json.loads raises.
ParseFailure == [ raised |-> FALSE, value |-> None ]

\* UnifiedSchemaGenerator._parse_response
SchemaParseResponse(response_text) ==
    LET cleaned == StripWs(StripMarkdown(StripWs(response_text)))
    IN  IF JsonLoadsOk(cleaned)
        THEN [ raised |-> FALSE, value |-> cleaned[1].v ]
        ELSE ParseFailure


\* ------------------------------------------------------------------------
\* UnifiedSchemaGenerator (core/schema_generator.py)
\* ------------------------------------------------------------------------

\* The set of every variation listed in column_mappings (mapped_columns).
MappedColumns(cm) == UNION { Elems(cm[i].variations) : i \in 1..Len(cm) }

\* _validate_schema: schema.get raises AttributeError on a value that is no
\* dict; otherwise the vocabulary's columns that no standard column lists.
ValidateSchema(sch, all_columns) ==
    IF sch.kind # "dict"
    THEN [ raised |-> TRUE, valid |-> FALSE, unmapped |-> << >> ]
    ELSE LET unmapped ==
                SelectSeq(all_columns,
                          LAMBDA col : col \notin MappedColumns(sch.column_mappings))
         IN  [ raised |-> FALSE, valid |-> Len(unmapped) = 0, unmapped |-> unmapped ]

\* missing_col.lower().replace('_', '').replace(' ', '')
NormalizeMissing(col) == RemoveChar(RemoveChar(Lower(col), "_"), " ")

\* standard_col.lower().replace('_', '')
NormalizeStandard(col) == RemoveChar(Lower(col), "_")

\* col.lower().replace(' ', '_'): the name of a new singleton standard column.
SingletonName(col) == ReplaceChar(Lower(col), " ", "_")

\* The inner loop of _auto_fix_missing_columns over column_mappings.keys():
\* the first key with the strictly highest score, as [ match, score ];
\* match is None (<< >>, with score 0) when no key scores above 0.
RECURSIVE BestStandard(_, _, _, _, _)
BestStandard(cm, i, missing_normalized, best_match, best_score) ==
    IF i > Len(cm) THEN [ match |-> best_match, score |-> best_score ]
    ELSE LET score == FuzzRatio(missing_normalized,
                                NormalizeStandard(cm[i].standard_col))
         IN  IF score > best_score
             THEN BestStandard(cm, i + 1, missing_normalized, cm[i].standard_col, score)
             ELSE BestStandard(cm, i + 1, missing_normalized, best_match, best_score)

\* The acceptance threshold of the repair: best_score > 70.
RepairAccepts(score) == score > 70

\* The outer loop of _auto_fix_missing_columns from the i-th missing column
\* on, over the schema's dict. A new standard column needs
\* schema['column_types'], which raises KeyError when the key is absent.
RECURSIVE AutoFixLoop(_, _, _)
AutoFixLoop(sch, missing_columns, i) ==
    IF i > Len(missing_columns) THEN [ raised |-> FALSE, schema |-> sch ]
    ELSE LET missing_col == missing_columns[i]
             cm   == sch.column_mappings
             best == BestStandard(cm, 1, NormalizeMissing(missing_col), << >>, 0)
         IN  IF best.match # << >> /\ RepairAccepts(best.score)
             THEN AutoFixLoop(
                    [sch EXCEPT !.column_mappings =
                        DictSet(cm, best.match,
                                Append(DictGet(cm, best.match), missing_col))],
                    missing_columns, i + 1)
             ELSE IF "column_types" \notin sch.keys
             THEN [ raised |-> TRUE, schema |-> sch ]
             ELSE AutoFixLoop(
                    [sch EXCEPT
                        !.column_mappings =
                            DictSet(cm, SingletonName(missing_col), << missing_col >>),
                        !.column_types =
                            TypeSet(@, SingletonName(missing_col), "string")],
                    missing_columns, i + 1)

\* _auto_fix_missing_columns: the loop, then schema['column_mappings'] is set.
AutoFixMissingColumns(sch, missing_columns) ==
    LET r == AutoFixLoop(sch, missing_columns, 1)
    IN  IF r.raised THEN r
        ELSE [ raised |-> FALSE,
               schema |-> [r.schema EXCEPT !.keys = @ \cup { "column_mappings" }] ]

\* re.search(pattern, s) for a pattern of literal segments joined by '.*':
\* the segments occur in s in this order, without overlap, from p on.
RECURSIVE SegmentsFrom(_, _, _)
SegmentsFrom(segments, s, p) ==
    IF segments = << >> THEN TRUE
    ELSE \E q \in p..(Len(s) + 1) :
            /\ OccursAt(Head(segments), s, q)
            /\ SegmentsFrom(Tail(segments), s, q + Len(Head(segments)))

ReSearch(pattern, s) == SegmentsFrom(pattern, s, 1)

\* pattern.replace('_', '').replace(' ', '')
NormalizePattern(pattern) ==
    [ i \in 1..Len(pattern) |-> RemoveChar(RemoveChar(pattern[i], "_"), " ") ]

\* Whether one of the patterns of the list is found in the normalized column.
MatchesPatternList(pattern_list, col) ==
    \E i \in 1..Len(pattern_list) :
        ReSearch(NormalizePattern(pattern_list[i]), NormalizeMissing(col))

\* The type the fallback gives a pattern's standard column.
FallbackType(standard_col) ==
    IF Contains(standard_col, << "c", "o", "u", "n", "t" >>) \/ standard_col = Std_year
    THEN "integer"
    ELSE "string"

\* The fallback schema before any column is grouped.
FallbackSkeleton ==
    JsonValue("dict",
              { "domain", "column_mappings", "column_types",
                "required_columns", "data_standards" },
              "unknown", << >>, EmptyDict)

\* "Group columns by pattern": one standard column per pattern list that
\* matches a column, listing every column it matches.
RECURSIVE FallbackGroup(_, _, _)
FallbackGroup(sch, all_columns, i) ==
    IF i > Len(patterns) THEN sch
    ELSE LET standard_col == patterns[i].standard_col
             variations ==
                SelectSeq(all_columns,
                          LAMBDA col : MatchesPatternList(patterns[i].pattern_list, col))
         IN  IF variations # << >>
             THEN FallbackGroup(
                    [sch EXCEPT
                        !.column_mappings = DictSet(@, standard_col, variations),
                        !.column_types = TypeSet(@, standard_col, FallbackType(standard_col))],
                    all_columns, i + 1)
             ELSE FallbackGroup(sch, all_columns, i + 1)

\* "Add any unmapped columns as-is": mapped_cols is computed once, before
\* the loop; each column outside it becomes schema[col_standard] = [col].
RECURSIVE FallbackSingletons(_, _, _, _)
FallbackSingletons(sch, all_columns, mapped_cols, i) ==
    IF i > Len(all_columns) THEN sch
    ELSE IF all_columns[i] \in mapped_cols
    THEN FallbackSingletons(sch, all_columns, mapped_cols, i + 1)
    ELSE FallbackSingletons(
            [sch EXCEPT
                !.column_mappings =
                    DictSet(@, SingletonName(all_columns[i]), << all_columns[i] >>),
                !.column_types = TypeSet(@, SingletonName(all_columns[i]), "string")],
            all_columns, mapped_cols, i + 1)

\* _create_fallback_schema
CreateFallbackSchema(all_columns) ==
    LET grouped == FallbackGroup(FallbackSkeleton, all_columns, 1)
    IN  FallbackSingletons(grouped, all_columns,
                           MappedColumns(grouped.column_mappings), 1)


\* ------------------------------------------------------------------------
\* generate_unified_schema as a state machine
\* ------------------------------------------------------------------------

\* The bound of the batches: the number of files.
MaxFiles == 2

\* The column lists of the files of a batch.
FileHeaders ==
    { << Raw_Dist, Raw_Hing_01 >>,
      << Raw_hing_01_sp, Raw_blank >>,
      << Raw_Location, Raw_Districts >> }

\* The batches: 1..MaxFiles files, the i-th named i.
Batches ==
    UNION { { [ i \in 1..n |-> [ filename |-> i, columns |-> h[i] ] ] :
              h \in [ 1..n -> FileHeaders ] } : n \in 1..MaxFiles }

\* What a candidate schema may use as standard column names and variants.
\* The inference step is untrusted: a standard column may have any name,
\* the empty one included.
CandidateStandards == { Std_district, Raw_dist, Raw_blank }

CandidateVariants == { Raw_Dist, Raw_Hing_01 }

VariantLists == { SortedList(S) : S \in SUBSET CandidateVariants }

\* The column_mappings of the candidates: up to two standard columns in
\* either order, each with a list of variants.
CandidateMappings ==
    { << >> }
    \cup { << [ standard_col |-> k, variations |-> v ] >> :
            k \in CandidateStandards, v \in VariantLists }
    \cup { << [ standard_col |-> kk[1], variations |-> v1 ],
              [ standard_col |-> kk[2], variations |-> v2 ] >> :
            kk \in { p \in CandidateStandards \X CandidateStandards : p[1] # p[2] },
            v1 \in VariantLists, v2 \in VariantLists }

\* Every standard column of cm typed "string".
StringTypes(cm) == [ k \in Elems(DictKeys(cm)) |-> "string" ]

\* The JSON values the inference step may answer with: None, {}, a list,
\* a dict without column_mappings, the candidates, and the candidates of at
\* most one standard column without column_types.
CandidateValues ==
    { None, EmptyJsonDict, NonEmptyList,
      JsonValue("dict", { "column_types" }, "", << >>, EmptyDict) }
    \cup { JsonValue("dict", { "domain", "column_mappings", "column_types" },
                     "livestock", cm, StringTypes(cm)) : cm \in CandidateMappings }
    \cup { JsonValue("dict", { "domain", "column_mappings" },
                     "livestock", cm, EmptyDict) :
            cm \in { c \in CandidateMappings : Len(c) <= 1 } }

\* The wrappings of a JSON text the parser is tried on.
Wrappings(v) ==
    { << Tok("fence_json"), JsonTok(v), Tok("fence") >>,
      << Tok("ws"), Tok("fence"), Tok("ws"), JsonTok(v), Tok("fence"), Tok("prose") >>,
      << Tok("prose"), Tok("fence_json"), JsonTok(v), Tok("fence"), Tok("prose") >>,
      << Tok("prose"), JsonTok(v) >>,
      << Tok("fence_json"), Tok("prose"), Tok("fence") >> }

WrappedValue ==
    JsonValue("dict", { "domain", "column_mappings", "column_types" }, "livestock",
              << [ standard_col |-> Std_district, variations |-> << Raw_Dist >> ] >>,
              [ k \in { Std_district } |-> "string" ])

\* The response texts of the inference step.
ResponseTexts ==
    { << JsonTok(v) >> : v \in CandidateValues }
    \cup Wrappings(WrappedValue)
    \cup { << >>, << Tok("prose") >> }

NoResponse == [ raised |-> FALSE, text |-> << >> ]

NoValidation == [ raised |-> FALSE, valid |-> FALSE, unmapped |-> << >> ]

\* The variables of the operations that a specification does not exercise
\* keep these values.
TransformIdle ==
    /\ unified_schema = None
    /\ df = << >>
    /\ column_mapping = << >>
    /\ df_transformed = << >>
    /\ returned = << >>

MetadataIdle ==
    /\ file_info = << >>
    /\ transformation_log = << >>
    /\ metadata = << >>

RunIdle ==
    /\ dataset_metadata = << >>
    /\ files = << >>
    /\ file_index = 0
    /\ outputs = {}
    /\ metadata_catalog = << >>

SchemaInit ==
    /\ pc = "collect"
    /\ all_file_info \in Batches
    /\ all_columns_list = << >>
    /\ response = NoResponse
    /\ schema = None
    /\ validation_result = NoValidation
    /\ result = None
    /\ TransformIdle
    /\ MetadataIdle
    /\ RunIdle

\* Lines 33-43: the sorted union of the files' column names.
CollectColumns ==
    /\ pc = "collect"
    /\ all_columns_list' =
         SortedList(UNION { Elems(all_file_info[i].columns) :
                            i \in 1..Len(all_file_info) })
    /\ pc' = "infer"
    /\ UNCHANGED << all_file_info, response, schema, validation_result, result >>
    /\ UNCHANGED << transformVars, metadataVars, runVars >>

\* Where control goes when a statement of the try block raises: the handler
\* `except Exception` of line 81. The mutant has a handler that does not
\* catch it.
HandlerMissesException == "raised"

OnException == "except"

\* Line 52: the inference call raises (service unreachable, timeout) ...
InferenceRaises ==
    /\ pc = "infer"
    /\ response' = [ raised |-> TRUE, text |-> << >> ]
    /\ pc' = OnException
    /\ UNCHANGED << all_file_info, all_columns_list, schema, validation_result, result >>
    /\ UNCHANGED << transformVars, metadataVars, runVars >>

\* ... or answers with a text.
InferenceAnswers ==
    /\ pc = "infer"
    /\ \E text \in ResponseTexts : response' = [ raised |-> FALSE, text |-> text ]
    /\ pc' = "parse"
    /\ UNCHANGED << all_file_info, all_columns_list, schema, validation_result, result >>
    /\ UNCHANGED << transformVars, metadataVars, runVars >>

\* Lines 58-60 and 77: parse, then branch on `if schema:`.
ParseResponse ==
    /\ pc = "parse"
    /\ LET parsed == SchemaParseResponse(response.text)
       IN  /\ schema' = parsed.value
           /\ pc' = IF parsed.raised THEN OnException
                    ELSE IF Truthy(parsed.value) THEN "validate"
                    ELSE "parse_failed"
    /\ UNCHANGED << all_file_info, all_columns_list, response, validation_result, result >>
    /\ UNCHANGED << transformVars, metadataVars, runVars >>

\* Lines 62-76: validate; a valid schema is returned as it is.
Validate ==
    /\ pc = "validate"
    /\ LET v == ValidateSchema(schema, all_columns_list)
       IN  /\ validation_result' = v
           /\ pc' = IF v.raised THEN OnException
                    ELSE IF v.valid THEN "returned"
                    ELSE "autofix"
           /\ result' = IF ~v.raised /\ v.valid THEN schema ELSE result
    /\ UNCHANGED << all_file_info, all_columns_list, response, schema >>
    /\ UNCHANGED << transformVars, metadataVars, runVars >>

\* Lines 74-76: repair, then return the repaired schema.
AutoFix ==
    /\ pc = "autofix"
    /\ LET r == AutoFixMissingColumns(schema, validation_result.unmapped)
       IN  /\ schema' = r.schema
           /\ pc' = IF r.raised THEN OnException ELSE "returned"
           /\ result' = IF r.raised THEN result ELSE r.schema
    /\ UNCHANGED << all_file_info, all_columns_list, response, validation_result >>
    /\ UNCHANGED << transformVars, metadataVars, runVars >>

\* Lines 78-79: the response did not parse to a non-empty value.
FallbackAfterParse ==
    /\ pc = "parse_failed"
    /\ result' = CreateFallbackSchema(all_columns_list)
    /\ pc' = "returned_fallback"
    /\ UNCHANGED << all_file_info, all_columns_list, response, schema, validation_result >>
    /\ UNCHANGED << transformVars, metadataVars, runVars >>

\* Lines 81-84: an exception of the try block.
FallbackAfterException ==
    /\ pc = "except"
    /\ result' = CreateFallbackSchema(all_columns_list)
    /\ pc' = "returned_fallback"
    /\ UNCHANGED << all_file_info, all_columns_list, response, schema, validation_result >>
    /\ UNCHANGED << transformVars, metadataVars, runVars >>

SchemaNext ==
    \/ CollectColumns
    \/ InferenceRaises
    \/ InferenceAnswers
    \/ ParseResponse
    \/ Validate
    \/ AutoFix
    \/ FallbackAfterParse
    \/ FallbackAfterException

SpecSchema == SchemaInit /\ [][SchemaNext]_vars


\* ------------------------------------------------------------------------
\* SchemaTransformer (core/transformer.py)
\* ------------------------------------------------------------------------

\* _normalize_string: lower, strip, drop what is neither \w nor whitespace,
\* then drop underscores and spaces.
NormalizeString(str) ==
    RemoveChar(RemoveChar(RemoveSpecial(Strip(Lower(str))), "_"), " ")

\* original_lower in [v.lower() for v in variations]
InLowered(original_lower, variations) ==
    \E i \in 1..Len(variations) : Lower(variations[i]) = original_lower

\* Strategy 3 on one standard column: the loop over its variations, which
\* keeps the strictly highest score seen so far and the column it came from.
RECURSIVE FuzzyOverVariations(_, _, _, _, _, _)
FuzzyOverVariations(variations, j, standard_col, original_normalized, best_match, best_score) ==
    IF j > Len(variations) THEN [ match |-> best_match, score |-> best_score ]
    ELSE LET score == FuzzRatio(original_normalized, NormalizeString(variations[j]))
         IN  IF score > best_score
             THEN FuzzyOverVariations(variations, j + 1, standard_col,
                                      original_normalized, standard_col, score)
             ELSE FuzzyOverVariations(variations, j + 1, standard_col,
                                      original_normalized, best_match, best_score)

\* The loop of _find_best_match over column_mappings.items() from the i-th
\* entry on: strategies 1 and 2 return from inside the loop, strategy 3
\* only updates best_match and best_score.
RECURSIVE MatchLoop(_, _, _, _, _)
MatchLoop(cm, i, original_col, best_match, best_score) ==
    IF i > Len(cm)
    THEN [ returned |-> FALSE, value |-> << >>,
           best_match |-> best_match, best_score |-> best_score ]
    ELSE IF InList(original_col, cm[i].variations)
    THEN [ returned |-> TRUE, value |-> cm[i].standard_col,
           best_match |-> best_match, best_score |-> best_score ]
    ELSE IF InLowered(Strip(Lower(original_col)), cm[i].variations)
    THEN [ returned |-> TRUE, value |-> cm[i].standard_col,
           best_match |-> best_match, best_score |-> best_score ]
    ELSE LET f == FuzzyOverVariations(cm[i].variations, 1, cm[i].standard_col,
                                      NormalizeString(original_col),
                                      best_match, best_score)
         IN  MatchLoop(cm, i + 1, original_col, f.match, f.score)

\* A matcher with a stricter threshold.
MatchAcceptsAbove95(score) == score >= 95

\* The similarity threshold of the matcher: score >= 85.
MatchAccepts(score) == score >= 85

\* _find_best_match. None is << >>: the callers test the result for truth,
\* which the empty name fails as None does. Strategy 4 reads the loop
\* variable standard_col after the loop: the last key of column_mappings.
FindBestMatch(cm, original_col) ==
    LET r == MatchLoop(cm, 1, original_col, << >>, 0)
    IN  IF r.returned THEN r.value
        ELSE IF MatchAccepts(r.best_score) THEN r.best_match
        ELSE IF r.best_match # << >>
                /\ NormalizeString(cm[Len(cm)].standard_col) # << >>
                /\ MatchAccepts(FuzzRatio(NormalizeString(original_col),
                                          NormalizeString(cm[Len(cm)].standard_col)))
        THEN r.best_match
        ELSE << >>

\* A DataFrame is the list of its columns, each [ name, raw, cells ]: name is
\* the label, raw the label the column had in the cleaned table (kept to
\* follow a column through the renaming), cells the values by row.
ColumnNames(frame) == [ i \in 1..Len(frame) |-> frame[i].name ]

\* _build_file_mapping: the dict original_col -> matched standard column of
\* the columns that matched.
BuildFileMapping(cm, file_columns) ==
    LET matched == { c \in Elems(file_columns) : FindBestMatch(cm, c) # << >> }
    IN  [ c \in matched |-> FindBestMatch(cm, c) ]

\* df.rename(columns=mapping)
Rename(frame, mapping) ==
    [ i \in 1..Len(frame) |->
        IF frame[i].name \in DOMAIN mapping
        THEN [ frame[i] EXCEPT !.name = mapping[frame[i].name] ]
        ELSE frame[i] ]

\* A cell: a number (integral or not), a text that is no number, or missing.
Num(val, integral) == [ kind |-> "num", val |-> val, integral |-> integral ]

Text(val) == [ kind |-> "text", val |-> val, integral |-> FALSE ]

Missing == [ kind |-> "missing", val |-> "", integral |-> FALSE ]

\* The numerals of the cells, and the number each denotes, in tenths.
Numerals ==
    { "1.5", "1899", "1900", "1901", "2021", "2023", "2023.5", "2029", "2030", "2045" }

NumberOf(val) ==
    CASE val = "1.5"    -> 15
      [] val = "1899"   -> 18990
      [] val = "1900"   -> 19000
      [] val = "1901"   -> 19010
      [] val = "2021"   -> 20210
      [] val = "2023"   -> 20230
      [] val = "2023.5" -> 20235
      [] val = "2029"   -> 20290
      [] val = "2030"   -> 20300
      [] val = "2045"   -> 20450

\* min and max of a non-empty set of numbers
Min(S) == CHOOSE x \in S : \A y \in S : x <= y

Max(S) == CHOOSE x \in S : \A y \in S : x >= y

\* pd.to_numeric(series, errors='coerce') on one cell.
ToNumeric(cell) == IF cell.kind = "num" THEN cell ELSE Missing

\* str(value) on one cell, as astype(str) applies it: a missing value
\* becomes the text 'nan'.
ToStr(cell) == IF cell.kind = "missing" THEN Text("nan") ELSE Text(cell.val)

\* .astype('Int64') raises on a value that is no whole number.
Int64Raises(cells) ==
    \E r \in 1..Len(cells) : cells[r].kind = "num" /\ ~cells[r].integral

\* The body of the try block of _convert_types for one column label: what
\* the cells of a column with that label become. With a label that several
\* columns share, df[col] is a DataFrame, on which pd.to_numeric raises. An
\* exception leaves the column as it was.
ConvertCells(cells, target_type, shared_label) ==
    IF target_type = "integer"
    THEN IF shared_label \/ Int64Raises([ r \in 1..Len(cells) |-> ToNumeric(cells[r]) ])
         THEN cells
         ELSE [ r \in 1..Len(cells) |-> ToNumeric(cells[r]) ]
    ELSE IF target_type = "float"
    THEN IF shared_label THEN cells
         ELSE [ r \in 1..Len(cells) |-> ToNumeric(cells[r]) ]
    ELSE IF target_type = "string"
    THEN [ r \in 1..Len(cells) |-> ToStr(cells[r]) ]
    ELSE cells

\* The loop of _convert_types from the i-th label of df.columns on.
RECURSIVE ConvertLoop(_, _, _)
ConvertLoop(frame, ct, i) ==
    IF i > Len(frame) THEN frame
    ELSE LET col == frame[i].name
             shared == Cardinality({ k \in 1..Len(frame) : frame[k].name = col }) > 1
         IN  IF col \in DOMAIN ct
             THEN ConvertLoop(
                    [ k \in 1..Len(frame) |->
                        IF frame[k].name = col
                        THEN [ frame[k] EXCEPT !.cells = ConvertCells(@, ct[col], shared) ]
                        ELSE frame[k] ],
                    ct, i + 1)
             ELSE ConvertLoop(frame, ct, i + 1)

\* _convert_types
ConvertTypes(frame, ct) == ConvertLoop(frame, ct, 1)

\* df[labels]: for each label of the list in turn, every column of df that
\* carries it.
RECURSIVE SelectColumns(_, _)
SelectColumns(frame, labels) ==
    IF labels = << >> THEN << >>
    ELSE SelectSeq(frame, LAMBDA c : c.name = Head(labels))
         \o SelectColumns(frame, Tail(labels))

\* A reordering that returns the standard columns only: df[ordered_cols].
ReorderDropsExtras(frame, cm) ==
    SelectColumns(frame,
                  SelectSeq(DictKeys(cm), LAMBDA col : InList(col, ColumnNames(frame))))

\* _reorder_columns: the standard columns present, in schema order, then the
\* other labels of df in their order.
ReorderColumns(frame, cm) ==
    LET names        == ColumnNames(frame)
        ordered_cols == SelectSeq(DictKeys(cm), LAMBDA col : InList(col, names))
        extra_cols   == SelectSeq(names, LAMBDA col : ~InList(col, ordered_cols))
    IN  SelectColumns(frame, ordered_cols \o extra_cols)


\* transform as a function: the harmonized table and the mapping.
Transform(sch, frame) ==
    LET mapping == BuildFileMapping(sch.column_mappings, ColumnNames(frame))
    IN  [ df |-> ReorderColumns(
                    ConvertTypes(Rename(frame, mapping), sch.column_types),
                    sch.column_mappings),
          mapping |-> mapping ]

\* ------------------------------------------------------------------------
\* transform as a state machine
\* ------------------------------------------------------------------------

Raw_District == << "D", "i", "s", "t", "r", "i", "c", "t" >>

Std_hing_code == << "h", "i", "n", "g", "_", "c", "o", "d", "e" >>

\* The standard column that the mapper's prompt reserves for junk columns.
Std_DROP == << "D", "R", "O", "P" >>

\* The bound of the tables: the number of rows.
NumRows == 2

\* The values of the cells.
CellValues == { Num("2021", TRUE), Num("1899", TRUE), Num("1.5", FALSE), Text("abc"), Missing }

\* The cells of one column of a table of n rows.
ColumnData(n) == [ 1..n -> CellValues ]

\* The column that the columns of a table are filled with by default.
Filler(n) == [ r \in 1..n |-> Num("2021", TRUE) ]

\* The headers of the cleaned tables: pairwise distinct names (the cleaner
\* fails on a table with a repeated name).
TableHeaders ==
    { << Raw_Dist, Raw_Year >>,
      << Raw_Districts, Raw_Dist >>,
      << Raw_Hing_01, Raw_Year >>,
      << Raw_District, Raw_Location >>,
      << Raw_Dist >> }

\* The cleaned tables: up to NumRows rows; one column holds any cells, the
\* others the filler.
Tables ==
    { [ i \in 1..Len(h) |->
          [ name |-> h[i], raw |-> h[i],
            cells |-> IF i = varied THEN cells ELSE Filler(Len(cells)) ] ] :
        h \in TableHeaders, varied \in 1..2,
        cells \in UNION { ColumnData(n) : n \in 0..NumRows } }

TypedSchema(cm, ct) ==
    JsonValue("dict", { "domain", "column_mappings", "column_types" }, "livestock", cm, ct)

\* The schema of a batch with the columns Dist, Districts and Year.
LivestockMappings ==
    << [ standard_col |-> Std_district, variations |-> << Raw_Dist, Raw_Districts >> ],
       [ standard_col |-> Std_year, variations |-> << Raw_Year >> ] >>

\* A candidate that lists the lower-case spelling of Hing_01, which the
\* vocabulary does not hold, repaired for the vocabulary << Hing_01 >>.
RepairedSchema ==
    AutoFixMissingColumns(
        TypedSchema(<< [ standard_col |-> Std_hing_code,
                         variations |-> << Lower(Raw_Hing_01) >> ] >>,
                    (Std_hing_code :> "string")),
        << Raw_Hing_01 >>).schema

\* A schema that assigns the raw column Hing_01 to the removal sentinel.
SentinelSchema ==
    TypedSchema(<< LivestockMappings[1], LivestockMappings[2],
                   [ standard_col |-> Std_DROP, variations |-> << Raw_Hing_01 >> ] >>,
                (Std_district :> "string") @@ (Std_year :> "integer"))

\* A schema in which two standard columns hold variants that normalize to
\* the same text.
TieSchema ==
    TypedSchema(<< [ standard_col |-> Std_district, variations |-> << Raw_District >> ],
                   [ standard_col |-> Raw_dist, variations |-> << Lower(Raw_District) >> ] >>,
                (Std_district :> "string") @@ (Raw_dist :> "string"))

\* The schemas the transformer is built with.
TransformSchemas ==
    { TypedSchema(LivestockMappings, (Std_district :> "string") @@ (Std_year :> "integer")),
      TypedSchema(LivestockMappings, (Std_district :> "string") @@ (Std_year :> "float")),
      TypedSchema(<< LivestockMappings[2], LivestockMappings[1] >>,
                  (Std_district :> "string") @@ (Std_year :> "string")),
      TypedSchema(<< [ standard_col |-> Std_district, variations |-> << Raw_dist >> ],
                     [ standard_col |-> Raw_dist, variations |-> << Raw_Dist >> ] >>,
                  (Std_district :> "string") @@ (Raw_dist :> "string")),
      RepairedSchema,
      SentinelSchema,
      TieSchema,
      CreateFallbackSchema(SortedList({ Raw_Dist, Raw_Location, Raw_Year })) }

TransformInit ==
    /\ pc = "build_mapping"
    /\ unified_schema \in TransformSchemas
    /\ df \in Tables
    /\ column_mapping = << >>
    /\ df_transformed = << >>
    /\ returned = << >>
    /\ all_file_info = << >>
    /\ all_columns_list = << >>
    /\ response = NoResponse
    /\ schema = None
    /\ validation_result = NoValidation
    /\ result = None
    /\ MetadataIdle
    /\ RunIdle

\* Line 24 for a _build_file_mapping that recorded every matched raw name
\* among the variations of its standard column.
BuildMappingRecordsVariants ==
    /\ pc = "build_mapping"
    /\ column_mapping' = BuildFileMapping(unified_schema.column_mappings, ColumnNames(df))
    /\ LET cm == unified_schema.column_mappings
       IN  unified_schema' =
             [ unified_schema EXCEPT !.column_mappings =
                 [ i \in 1..Len(cm) |->
                     LET Matched(c) == FindBestMatch(cm, c) = cm[i].standard_col
                     IN  [ standard_col |-> cm[i].standard_col,
                           variations |-> cm[i].variations \o SelectSeq(ColumnNames(df), Matched) ] ] ]
    /\ pc' = "rename"
    /\ UNCHANGED << df, df_transformed, returned >>
    /\ UNCHANGED << schemaVars, metadataVars, runVars >>

\* Line 24: column_mapping = self._build_file_mapping(df.columns)
BuildMapping ==
    /\ pc = "build_mapping"
    /\ column_mapping' = BuildFileMapping(unified_schema.column_mappings, ColumnNames(df))
    /\ pc' = "rename"
    /\ UNCHANGED << unified_schema, df, df_transformed, returned >>
    /\ UNCHANGED << schemaVars, metadataVars, runVars >>

\* Line 31: df_transformed = df.rename(columns=column_mapping)
RenameColumns ==
    /\ pc = "rename"
    /\ df_transformed' = Rename(df, column_mapping)
    /\ pc' = "convert"
    /\ UNCHANGED << unified_schema, df, column_mapping, returned >>
    /\ UNCHANGED << schemaVars, metadataVars, runVars >>

\* Line 36 for a rename that had given back the caller's table itself: the
\* assignments of _convert_types would then reach the caller's table.
ConvertCallersTable ==
    /\ pc = "convert"
    /\ df_transformed' = ConvertTypes(df_transformed, unified_schema.column_types)
    /\ df' = df_transformed'
    /\ pc' = "reorder"
    /\ UNCHANGED << unified_schema, column_mapping, returned >>
    /\ UNCHANGED << schemaVars, metadataVars, runVars >>

\* Line 36: df_transformed = self._convert_types(df_transformed)
ConvertColumnTypes ==
    /\ pc = "convert"
    /\ df_transformed' = ConvertTypes(df_transformed, unified_schema.column_types)
    /\ pc' = "reorder"
    /\ UNCHANGED << unified_schema, df, column_mapping, returned >>
    /\ UNCHANGED << schemaVars, metadataVars, runVars >>

\* Lines 39-43: df_transformed = self._reorder_columns(df_transformed); return.
Reorder ==
    /\ pc = "reorder"
    /\ df_transformed' = ReorderColumns(df_transformed, unified_schema.column_mappings)
    /\ returned' = Append(returned, [ df |-> df_transformed', mapping |-> column_mapping ])
    /\ pc' = "transformed"
    /\ UNCHANGED << unified_schema, df, column_mapping >>
    /\ UNCHANGED << schemaVars, metadataVars, runVars >>

TransformNext ==
    \/ BuildMapping
    \/ RenameColumns
    \/ ConvertColumnTypes
    \/ Reorder

SpecTransform == TransformInit /\ [][TransformNext]_vars

\* The number of calls of transform on one table that the model follows.
MaxCalls == 2

\* The caller calls transform once more, with the same transformer and the
\* same table object.
CallAgain ==
    /\ pc = "transformed"
    /\ Len(returned) < MaxCalls
    /\ pc' = "build_mapping"
    /\ UNCHANGED << schemaVars, transformVars, metadataVars, runVars >>

RepeatNext ==
    \/ TransformNext
    \/ CallAgain

SpecRepeat == TransformInit /\ [][RepeatNext]_vars


\* ------------------------------------------------------------------------
\* MetadataGenerator (core/metadata_generator.py)
\* ------------------------------------------------------------------------

\* A dict with string keys is a function; d[k] = v:
Put(d, k, v) == [ x \in DOMAIN d \cup { k } |-> IF x = k THEN v ELSE d[x] ]

\* A text value of a record: a text and what is formatted into it.
StrOf(text, arg) == [ text |-> text, arg |-> arg ]

Str(text) == StrOf(text, 0)

\* bool(value) of a text value
ValueTruthy(value) == value.text # ""

\* A section of a record is a dict of text values, or, in what the inference
\* step answers, possibly a value that is no dict.
Section(fields) == [ kind |-> "dict", fields |-> fields ]

NotADict == [ kind |-> "str", fields |-> << >> ]

\* A parsed JSON value of the metadata inference: kind "dict" with its
\* sections, kind "list" (a truthy value that is no dict), kind "null".
MetaValue(kind, sections) == [ kind |-> kind, sections |-> sections ]

EmptyMetaDict == MetaValue("dict", << >>)

MetaTruthy(v) ==
    \/ v.kind = "list"
    \/ v.kind = "dict" /\ DOMAIN v.sections # {}

\* MetadataGenerator._parse_response: {} when json.loads raises.
MetaParseResponse(response_text) ==
    LET cleaned == StripWs(StripMarkdown(StripWs(response_text)))
    IN  IF JsonLoadsOk(cleaned) THEN cleaned[1].v ELSE EmptyMetaDict

TemporalTokens ==
    { << "y", "e", "a", "r" >>,
      << "d", "a", "t", "e" >>,
      << "t", "i", "m", "e" >> }

LocationTokens ==
    { << "s", "t", "a", "t", "e" >>,
      << "d", "i", "s", "t", "r", "i", "c", "t" >>,
      << "r", "e", "g", "i", "o", "n" >> }

LatitudeTokens ==
    { << "l", "a", "t" >>,
      << "l", "a", "t", "i", "t", "u", "d", "e" >> }

LongitudeTokens ==
    { << "l", "o", "n" >>,
      << "l", "n", "g" >>,
      << "l", "o", "n", "g", "i", "t", "u", "d", "e" >> }

\* any(token in col.lower() for token in tokens)
HasToken(col, tokens) == \E token \in tokens : Contains(Lower(col), token)

\* len(df)
RowCount(frame) == IF frame = << >> THEN 0 ELSE Len(frame[1].cells)

\* The positions of the columns of frame labelled col.
Labelled(frame, col) == { k \in 1..Len(frame) : frame[k].name = col }

\* pd.api.types.is_numeric_dtype of a column: it holds numbers and missing
\* values only.
IsNumericDtype(cells) ==
    \A r \in 1..Len(cells) : cells[r].kind \in { "num", "missing" }

\* What pd.to_datetime(errors='coerce') keeps of a column that is not
\* numeric: a number, or a text that reads as a date (a year).
ParsesAsDate(cell) ==
    \/ cell.kind = "num"
    \/ cell.kind = "text" /\ cell.val \in Numerals /\ NumberOf(cell.val) % 10 = 0
                          /\ NumberOf(cell.val) >= 10000

\* The text of a range of whole years: str(min) when the two are equal,
\* f"{min}-{max}" otherwise.
YearRange(min_year, max_year) == StrOf("years", << min_year, max_year >>)

\* The same for two floats rounded to two decimals, given in tenths.
FloatRange(min_year, max_year) == StrOf("floats", << min_year, max_year >>)

\* Lines 181-189 of _extract_temporal_coverage on the cells of a numeric
\* column that is not empty: whole years are written as integers.
NumericCoverage(cells) ==
    LET years == { NumberOf(cells[r].val) : r \in { x \in 1..Len(cells) : cells[x].kind = "num" } }
    IN  IF \A r \in 1..Len(cells) : cells[r].kind = "num" => cells[r].integral
        THEN YearRange(Min(years) \div 10, Max(years) \div 10)
        ELSE FloatRange(Min(years), Max(years))

\* The loop of _extract_temporal_coverage from the i-th column on, as
\* [ raised, value ]: the value is the text of the range (for dates, named
\* by the column it was read from), and is the empty text for None. With a label that several
\* columns share df[col] is a DataFrame, which pd.to_datetime rejects.
RECURSIVE TemporalLoop(_, _)
TemporalLoop(frame, i) ==
    IF i > Len(frame) THEN [ raised |-> FALSE, value |-> Str("") ]
    ELSE IF ~HasToken(frame[i].name, TemporalTokens) THEN TemporalLoop(frame, i + 1)
    ELSE LET same  == Labelled(frame, frame[i].name)
             cells == frame[i].cells
         IN  IF Cardinality(same) > 1
             THEN IF \E r \in 1..RowCount(frame) :
                        \A k \in same : frame[k].cells[r].kind # "missing"
                  THEN [ raised |-> TRUE, value |-> Str("") ]
                  ELSE TemporalLoop(frame, i + 1)
             ELSE IF \A r \in 1..Len(cells) : cells[r].kind = "missing"
             THEN TemporalLoop(frame, i + 1)
             ELSE IF IsNumericDtype(cells)
             THEN [ raised |-> FALSE, value |-> NumericCoverage(cells) ]
             ELSE IF \E r \in 1..Len(cells) : ParsesAsDate(cells[r])
             THEN [ raised |-> FALSE, value |-> StrOf("dates", i) ]
             ELSE TemporalLoop(frame, i + 1)

\* _extract_temporal_coverage
ExtractTemporalCoverage(frame) == TemporalLoop(frame, 1)

\* NULL_PLACEHOLDERS
NULL_PLACEHOLDERS == { "nan", "none", "null" }

\* _normalize_geo_values: the texts that are neither empty nor a
\* placeholder (the order of the sorted list is not kept).
NormalizeGeoValues(values) == values \ ({ "" } \cup NULL_PLACEHOLDERS)

\* _find_geo_column: the first column whose name holds a keyword, 0 for None.
FindGeoColumn(frame, keywords) ==
    IF \E k \in 1..Len(frame) : HasToken(frame[k].name, keywords)
    THEN CHOOSE k \in 1..Len(frame) :
            /\ HasToken(frame[k].name, keywords)
            /\ \A j \in 1..(k - 1) : ~HasToken(frame[j].name, keywords)
    ELSE 0

\* _extract_spatial_coverage as [ raised, spatial ]: spatial is the dict, its
\* values named by the number of locations. df[col] of a label that several
\* columns share is a DataFrame, which has no tolist and which pd.to_numeric
\* rejects.
ExtractSpatialCoverage(frame) ==
    LET location_cols == { k \in 1..Len(frame) : HasToken(frame[k].name, LocationTokens) }
        location_values ==
            { frame[kr[1]].cells[kr[2]].val :
                kr \in { p \in location_cols \X (1..RowCount(frame)) :
                            frame[p[1]].cells[p[2]].kind # "missing" } }
        values == NormalizeGeoValues(location_values)
        lat_col == FindGeoColumn(frame, LatitudeTokens)
        lon_col == FindGeoColumn(frame, LongitudeTokens)
        numeric(k) == \E r \in 1..RowCount(frame) : frame[k].cells[r].kind = "num"
    IN  IF \E k \in location_cols : Cardinality(Labelled(frame, frame[k].name)) > 1
        THEN [ raised |-> TRUE, spatial |-> << >> ]
        ELSE IF lat_col # 0 /\ lon_col # 0
                /\ \E k \in { lat_col, lon_col } :
                      Cardinality(Labelled(frame, frame[k].name)) > 1
        THEN [ raised |-> TRUE, spatial |-> << >> ]
        ELSE [ raised |-> FALSE,
               spatial |->
                 [ x \in (IF values # {} THEN { "spatial_coverage" } ELSE {})
                         \cup (IF lat_col # 0 /\ lon_col # 0
                                  /\ numeric(lat_col) /\ numeric(lon_col)
                               THEN { "geotags" } ELSE {}) |->
                   IF x = "spatial_coverage"
                   THEN StrOf("locations", Cardinality(values))
                   ELSE Str("ranges") ] ]

\* df.isnull().sum().sum()
NullCount(frame) ==
    Cardinality({ kr \in (1..Len(frame)) \X (1..RowCount(frame)) :
                    frame[kr[1]].cells[kr[2]].kind = "missing" })

\* _calculate_completeness, in hundredths.
CalculateCompleteness(frame) ==
    IF RowCount(frame) = 0 \/ Len(frame) = 0 THEN 0
    ELSE LET total == RowCount(frame) * Len(frame)
         IN  RoundDiv(100 * (total - NullCount(frame)), total)

\* _calculate_schema_coverage, in hundredths.
CalculateSchemaCoverage(frame, log) ==
    IF RowCount(frame) = 0 \/ Len(frame) = 0 THEN 0
    ELSE IF DOMAIN log.mapping = {} THEN 0
    ELSE LET coverage == RoundDiv(100 * Cardinality(DOMAIN log.mapping), Len(frame))
         IN  IF coverage < 100 THEN coverage ELSE 100

\* The checklist of _calculate_quality_metrics.
required_fields ==
    << << "catalog_info", "title" >>,
       << "catalog_info", "description" >>,
       << "catalog_info", "sector" >>,
       << "provenance", "source" >>,
       << "spatial_temporal", "temporal_coverage" >>,
       << "spatial_temporal", "spatial_coverage" >> >>

\* metadata.get(section, {}).get(field) is truthy.
Filled(md, section, field) ==
    /\ section \in DOMAIN md
    /\ field \in DOMAIN md[section].fields
    /\ ValueTruthy(md[section].fields[field])

\* _calculate_quality_metrics with a quality_score that is the sum of the
\* three scores, not their mean.
QualityMetricsUnaveraged(md, data_completeness, schema_coverage) ==
    LET filled ==
            Cardinality({ i \in 1..Len(required_fields) :
                            Filled(md, required_fields[i][1], required_fields[i][2]) })
        metadata_completeness == RoundDiv(100 * filled, Len(required_fields))
    IN  [ raised |-> FALSE,
          value |->
            [ metadata_completeness |-> metadata_completeness,
              data_completeness |-> data_completeness,
              schema_coverage |-> schema_coverage,
              quality_score |->
                metadata_completeness + data_completeness + schema_coverage ] ]

\* _calculate_quality_metrics as [ raised, value ], the scores in
\* hundredths: .get on a section that is no dict raises.
CalculateQualityMetrics(md, data_completeness, schema_coverage) ==
    IF \E i \in 1..Len(required_fields) :
            /\ required_fields[i][1] \in DOMAIN md
            /\ md[required_fields[i][1]].kind # "dict"
    THEN [ raised |-> TRUE, value |-> << >> ]
    ELSE LET filled ==
                Cardinality({ i \in 1..Len(required_fields) :
                                Filled(md, required_fields[i][1], required_fields[i][2]) })
             metadata_completeness == RoundDiv(100 * filled, Len(required_fields))
         IN  [ raised |-> FALSE,
               value |->
                 [ metadata_completeness |-> metadata_completeness,
                   data_completeness |-> data_completeness,
                   schema_coverage |-> schema_coverage,
                   quality_score |->
                     RoundDiv(metadata_completeness + data_completeness + schema_coverage,
                              3) ] ]

\* The dict technical_metadata.
TechnicalMetadata(fi, frame, data_completeness, transformations_applied) ==
    [ format |-> IF "format" \in DOMAIN fi THEN fi.format ELSE "CSV",
      original_filename |-> fi.filename,
      row_count |-> RowCount(frame),
      column_count |-> Len(frame),
      columns |-> ColumnNames(frame),
      data_quality |-> [ completeness |-> data_completeness,
                         standardized |-> TRUE, ai_ready |-> TRUE ],
      transformations_applied |-> transformations_applied ]

\* The assignments of the coverages into metadata['spatial_temporal'].
WithCoverage(fields, temporal_coverage, spatial) ==
    LET a == IF ValueTruthy(temporal_coverage)
             THEN Put(fields, "temporal_coverage", temporal_coverage) ELSE fields
        b == IF "spatial_coverage" \in DOMAIN spatial
             THEN Put(a, "spatial_coverage", spatial.spatial_coverage) ELSE a
    IN  IF "geotags" \in DOMAIN spatial THEN Put(b, "geotags", spatial.geotags) ELSE b

\* Lines 45-78 of generate_metadata on the dict metadata, as [ raised, value ].
BuildMetadata(fi, frame, log, md) ==
    LET temporal == ExtractTemporalCoverage(frame)
        spatial  == ExtractSpatialCoverage(frame)
        data_completeness == CalculateCompleteness(frame)
        schema_coverage   == CalculateSchemaCoverage(frame, log)
        Raised == [ raised |-> TRUE, value |-> << >> ]
    IN  IF temporal.raised \/ spatial.raised THEN Raised
        ELSE IF md.kind # "dict" THEN Raised
        ELSE LET m1 == IF "spatial_temporal" \in DOMAIN md.sections THEN md.sections
                       ELSE Put(md.sections, "spatial_temporal", Section(<< >>))
                 assigns == ValueTruthy(temporal.value) \/ DOMAIN spatial.spatial # {}
             IN  IF m1["spatial_temporal"].kind # "dict" /\ assigns THEN Raised
                 ELSE LET m2 == IF assigns
                                THEN Put(m1, "spatial_temporal",
                                         Section(WithCoverage(m1["spatial_temporal"].fields,
                                                              temporal.value, spatial.spatial)))
                                ELSE m1
                          m3 == Put(m2, "technical_metadata",
                                    TechnicalMetadata(fi, frame, data_completeness,
                                                      log.mapping))
                          q  == CalculateQualityMetrics(m3, data_completeness,
                                                        schema_coverage)
                      IN  IF q.raised THEN Raised
                          ELSE [ raised |-> FALSE,
                                 value |-> Put(m3, "quality_metrics", q.value) ]

\* self.schema.get('data_standards', {}).get('sector', 'Unknown'): the
\* schemas of the model that carry data_standards are the fallback ones.
SchemaSector(sch) == "Unknown"

\* _fallback_metadata as [ raised, value ]: the coverages are extracted
\* outside any try block.
FallbackMetadata(fi, frame, sch) ==
    LET data_completeness == CalculateCompleteness(frame)
        temporal == ExtractTemporalCoverage(frame)
        spatial  == ExtractSpatialCoverage(frame)
        fallback ==
            [ catalog_info |->
                Section([ title |-> StrOf("Government Dataset - ", fi.filename),
                          description |-> StrOf("Harmonized dataset with records.",
                                                RowCount(frame)),
                          sector |-> Str(SchemaSector(sch)),
                          keywords |-> Str("government, data, india") ]),
              provenance |->
                Section([ source |-> Str("Government of India"),
                          publisher |-> Str("Unknown"),
                          jurisdiction |-> Str("India") ]),
              spatial_temporal |->
                Section(WithCoverage(<< >>, temporal.value, spatial.spatial)),
              technical_metadata |->
                TechnicalMetadata(fi, frame, data_completeness, << >>) ]
    IN  IF temporal.raised \/ spatial.raised THEN [ raised |-> TRUE, value |-> << >> ]
        ELSE [ raised |-> FALSE,
               value |-> Put(fallback, "quality_metrics",
                             CalculateQualityMetrics(fallback, data_completeness, 0).value) ]


\* ------------------------------------------------------------------------
\* StatsExtractor (core/stats_extractor.py)
\* ------------------------------------------------------------------------

\* numeric_vals > 1900 and numeric_vals < 2030, on a number in tenths
ValidYear(n) == n > 19000 /\ n < 20300

\* The columns of year_cols whose values the loop reads: 'year' is in the
\* lower-cased name; on a label that several columns share pd.to_numeric
\* raises and the bare except skips the column.
YearColumns(frame) ==
    { k \in 1..Len(frame) :
        /\ Contains(Lower(frame[k].name), << "y", "e", "a", "r" >>)
        /\ Cardinality(Labelled(frame, frame[k].name)) = 1 }

\* StatsExtractor._get_temporal_range: valid_years holds the numbers of the
\* year columns that pass the window test; min_year and max_year stay None
\* (here << >>) and range_str 'Unknown' when there is none.
GetTemporalRange(frame) ==
    LET valid_years ==
            { NumberOf(frame[kr[1]].cells[kr[2]].val) :
                kr \in { p \in YearColumns(frame) \X (1..RowCount(frame)) :
                            /\ frame[p[1]].cells[p[2]].kind = "num"
                            /\ ValidYear(NumberOf(frame[p[1]].cells[p[2]].val)) } }
    IN  IF valid_years # {}
        THEN LET min_y == Min(valid_years) \div 10
                 max_y == Max(valid_years) \div 10
             IN  [ min_year |-> << min_y >>, max_year |-> << max_y >>,
                   range_str |-> YearRange(min_y, max_y) ]
        ELSE [ min_year |-> << >>, max_year |-> << >>, range_str |-> Str("Unknown") ]

\* next(c for c in df.columns if ...) over the positions that pass the
\* test: the first of them, 0 for None.
FirstColumn(positions) == IF positions = {} THEN 0 ELSE Min(positions)

\* df[col].dropna().astype(str).unique(), without 'total' (the texts of the
\* model are longer than one character and a table has fewer than five
\* rows, so that sorted(...)[:5] keeps them all).
SpatialValues(frame, k) ==
    { frame[k].cells[r].val :
        r \in { x \in 1..RowCount(frame) : frame[k].cells[x].kind # "missing" } }
    \ { "total", "Total", "TOTAL" }

\* StatsExtractor._get_spatial_info
GetSpatialInfo(frame) ==
    LET lower(k)    == Lower(frame[k].name)
        StateName   == { k \in 1..Len(frame) :
                           /\ Contains(lower(k), << "s", "t", "a", "t", "e" >>)
                           /\ Contains(lower(k), << "n", "a", "m", "e" >>) }
        IsState     == { k \in 1..Len(frame) : lower(k) = << "s", "t", "a", "t", "e" >> }
        HasDistrict == { k \in 1..Len(frame) :
                           Contains(lower(k), << "d", "i", "s", "t", "r", "i", "c", "t" >>) }
        IsDist      == { k \in 1..Len(frame) : lower(k) = << "d", "i", "s", "t" >> }
        state_col == IF FirstColumn(StateName) # 0
                     THEN FirstColumn(StateName) ELSE FirstColumn(IsState)
        dist_col  == IF FirstColumn(HasDistrict) # 0
                     THEN FirstColumn(HasDistrict) ELSE FirstColumn(IsDist)
    IN  [ states |-> IF state_col # 0 THEN SpatialValues(frame, state_col) ELSE {},
          districts |-> IF dist_col # 0 THEN SpatialValues(frame, dist_col) ELSE {},
          granularity |-> IF dist_col # 0 THEN "District"
                          ELSE IF state_col # 0 THEN "State" ELSE "Unknown" ]

\* StatsExtractor._get_data_quality, the score in hundredths.
GetDataQuality(frame) ==
    LET total_cells == RowCount(frame) * Len(frame)
    IN  IF total_cells = 0 THEN [ completeness_score |-> 0 ]
        ELSE [ completeness_score |->
                 RoundDiv(100 * (total_cells - NullCount(frame)), total_cells),
               missing_cells |-> NullCount(frame),
               total_rows |-> RowCount(frame) ]

\* StatsExtractor.extract_stats
ExtractStats(frame) ==
    [ row_count |-> RowCount(frame),
      col_count |-> Len(frame),
      temporal |-> GetTemporalRange(frame),
      spatial |-> GetSpatialInfo(frame),
      quality |-> GetDataQuality(frame) ]


\* ------------------------------------------------------------------------
\* extract_stats as a state machine
\* ------------------------------------------------------------------------

\* The cells of a year column.
YearCells ==
    { Num(v, NumberOf(v) % 10 = 0) : v \in Numerals \ { "1901", "2029" } }
    \cup { Text("abc"), Missing }

\* The cleaned tables the statistics are extracted from: a district column
\* and a year column of up to NumRows rows.
StatsTables ==
    { << [ name |-> Raw_Dist, raw |-> Raw_Dist, cells |-> [ r \in 1..Len(cells) |-> Text("abc") ] ],
         [ name |-> Raw_Year, raw |-> Raw_Year, cells |-> cells ] >> :
        cells \in UNION { [ 1..n -> YearCells ] : n \in 0..NumRows } }

StatsInit ==
    /\ pc = "extract_stats"
    /\ df \in StatsTables
    /\ file_info = [ filename |-> 1, format |-> "CSV" ]
    /\ unified_schema = None
    /\ column_mapping = << >>
    /\ df_transformed = << >>
    /\ returned = << >>
    /\ transformation_log = << >>
    /\ metadata = << >>
    /\ all_file_info = << >>
    /\ all_columns_list = << >>
    /\ response = NoResponse
    /\ schema = None
    /\ validation_result = NoValidation
    /\ result = None
    /\ RunIdle

\* main.py line 113: file_info['stats'] = stats_extractor.extract_stats(df)
StoreStats ==
    /\ pc = "extract_stats"
    /\ file_info' = Put(file_info, "stats", ExtractStats(df))
    /\ pc' = "stats_extracted"
    /\ UNCHANGED << transformation_log, metadata >>
    /\ UNCHANGED << schemaVars, transformVars, runVars >>

StatsNext == StoreStats

SpecStats == StatsInit /\ [][StatsNext]_vars


\* ------------------------------------------------------------------------
\* generate_metadata as a state machine
\* ------------------------------------------------------------------------

\* What the metadata inference may answer with: a full record, a record
\* with a title only, a record whose catalog_info is a text, {}, a list,
\* null.
FullAnswer ==
    MetaValue("dict",
        [ catalog_info |->
            Section([ title |-> Str("District-wise Livestock Census"),
                      description |-> Str("Livestock counts by district."),
                      sector |-> Str("Livestock"),
                      keywords |-> Str("livestock, census") ]),
          provenance |->
            Section([ source |-> Str("Department of Animal Husbandry"),
                      publisher |-> Str("Government of India") ]),
          spatial_temporal |->
            Section([ temporal_coverage |-> Str("2021"),
                      granularity |-> Str("District") ]),
          usage |-> Section([ license |-> Str("Open Government Data License - India") ]) ])

TitleOnlyAnswer ==
    MetaValue("dict", [ catalog_info |-> Section([ title |-> Str("Livestock") ]) ])

TextSectionAnswer ==
    MetaValue("dict", [ catalog_info |-> NotADict ])

MetaAnswers ==
    { FullAnswer, TitleOnlyAnswer, TextSectionAnswer, EmptyMetaDict,
      MetaValue("list", << >>), MetaValue("null", << >>) }

\* The response texts of the metadata inference.
MetaResponseTexts ==
    { << JsonTok(v) >> : v \in MetaAnswers }
    \cup { << Tok("fence_json"), JsonTok(FullAnswer), Tok("fence") >>,
           << Tok("prose"), JsonTok(FullAnswer) >>,
           << Tok("prose") >> }

\* The schemas the metadata generator is built with.
MetaSchemas ==
    { TypedSchema(LivestockMappings, (Std_district :> "string") @@ (Std_year :> "integer")),
      CreateFallbackSchema(SortedList({ Raw_Dist, Raw_Location, Raw_Year })) }

\* The arguments are those of the call in the Phase 2 loop: the table and the
\* mapping that transform returned for a cleaned table.
MetaInit ==
    /\ pc = "meta_infer"
    /\ unified_schema \in MetaSchemas
    /\ df \in Tables
    /\ \E t \in { Transform(unified_schema, df) } :
          /\ df_transformed = t.df
          /\ returned = << t >>
          /\ column_mapping = t.mapping
    /\ transformation_log = [ mapping |-> column_mapping ]
    /\ file_info = [ filename |-> 1, format |-> "CSV" ]
    /\ metadata = MetaValue("null", << >>)
    /\ response = NoResponse
    /\ result = None
    /\ all_file_info = << >>
    /\ all_columns_list = << >>
    /\ schema = None
    /\ validation_result = NoValidation
    /\ RunIdle

\* Lines 38-41: the inference call raises ...
MetaInferenceRaises ==
    /\ pc = "meta_infer"
    /\ response' = [ raised |-> TRUE, text |-> << >> ]
    /\ pc' = "meta_except"
    /\ UNCHANGED << all_file_info, all_columns_list, schema, validation_result, result >>
    /\ UNCHANGED << transformVars, metadataVars, runVars >>

\* ... or answers with a text.
MetaInferenceAnswers ==
    /\ pc = "meta_infer"
    /\ \E text \in MetaResponseTexts : response' = [ raised |-> FALSE, text |-> text ]
    /\ pc' = "meta_parse"
    /\ UNCHANGED << all_file_info, all_columns_list, schema, validation_result, result >>
    /\ UNCHANGED << transformVars, metadataVars, runVars >>

\* Line 43: metadata = self._parse_response(response.text) or {}
MetaParse ==
    /\ pc = "meta_parse"
    /\ LET parsed == MetaParseResponse(response.text)
       IN  metadata' = IF MetaTruthy(parsed) THEN parsed ELSE EmptyMetaDict
    /\ pc' = "meta_build"
    /\ UNCHANGED << file_info, transformation_log >>
    /\ UNCHANGED << schemaVars, transformVars, runVars >>

\* Lines 45-78: the record is completed and returned, or a statement raises.
MetaBuild ==
    /\ pc = "meta_build"
    /\ LET r == BuildMetadata(file_info, df_transformed, transformation_log, metadata)
       IN  /\ pc' = IF r.raised THEN "meta_except" ELSE "meta_returned"
           /\ result' = IF r.raised THEN result ELSE r.value
    /\ UNCHANGED << all_file_info, all_columns_list, response, schema, validation_result >>
    /\ UNCHANGED << transformVars, metadataVars, runVars >>

\* Lines 80-82: the handler returns _fallback_metadata, which may raise.
MetaFallback ==
    /\ pc = "meta_except"
    /\ LET f == FallbackMetadata(file_info, df_transformed, unified_schema)
       IN  /\ pc' = IF f.raised THEN "meta_raised" ELSE "meta_returned_fallback"
           /\ result' = IF f.raised THEN result ELSE f.value
    /\ UNCHANGED << all_file_info, all_columns_list, response, schema, validation_result >>
    /\ UNCHANGED << transformVars, metadataVars, runVars >>

MetaNext ==
    \/ MetaInferenceRaises
    \/ MetaInferenceAnswers
    \/ MetaParse
    \/ MetaBuild
    \/ MetaFallback

SpecMeta == MetaInit /\ [][MetaNext]_vars


\* ------------------------------------------------------------------------
\* run_two_phase_harmonization (main.py)
\* ------------------------------------------------------------------------

\* The cleaned tables of the files of a run: NumRows rows of the filler.
RunTables ==
    { [ i \in 1..Len(h) |->
          [ name |-> h[i], raw |-> h[i], cells |-> Filler(NumRows) ] ] :
        h \in { << Raw_Dist, Raw_Year >>, << Raw_Hing_01, Raw_Year >> } }

\* What load_file gives for a file of uploads/: None, or a table.
Unreadable == [ loaded |-> FALSE, table |-> << >> ]

Loads == { Unreadable } \cup { [ loaded |-> TRUE, table |-> t ] : t \in RunTables }

\* glob("uploads/*.csv"): up to MaxFiles files, the i-th named i.
Uploads ==
    UNION { { [ i \in 1..n |-> [ filename |-> i, load |-> l[i] ] ] :
              l \in [ 1..n -> Loads ] } : n \in 0..MaxFiles }

\* What extract_from_url scraped.
ScrapedMetadata == [ kind |-> "dict", title |-> "Livestock Census" ]

NoScrapedMetadata == [ kind |-> "null", title |-> "" ]

RunInit ==
    /\ pc = "source_selection"
    /\ files \in Uploads
    /\ dataset_metadata = NoScrapedMetadata
    /\ file_index = 0
    /\ outputs = {}
    /\ metadata_catalog = << >>
    /\ all_file_info = << >>
    /\ all_columns_list = << >>
    /\ response = NoResponse
    /\ schema = None
    /\ validation_result = NoValidation
    /\ result = None
    /\ TransformIdle
    /\ MetadataIdle

\* Lines 53-55 and 75-76: the local files are used (choice other than '1',
\* or no URL entered).
UseLocalFiles ==
    /\ pc = "source_selection"
    /\ pc' = "phase1"
    /\ UNCHANGED << schemaVars, transformVars, metadataVars, runVars >>

\* Lines 57-71: the extraction succeeded, with or without files.
PortalSucceeds ==
    /\ pc = "source_selection"
    /\ dataset_metadata' = ScrapedMetadata
    /\ pc' = "phase1"
    /\ UNCHANGED << files, file_index, outputs, metadata_catalog >>
    /\ UNCHANGED << schemaVars, transformVars, metadataVars >>

\* Lines 72-74: the extraction failed: return.
PortalFails ==
    /\ pc = "source_selection"
    /\ pc' = "stopped_extraction_failed"
    /\ UNCHANGED << schemaVars, transformVars, metadataVars, runVars >>

\* Lines 86-95: glob; return when there is no file.
GlobFiles ==
    /\ pc = "phase1"
    /\ pc' = IF files = << >> THEN "stopped_no_files" ELSE "ingest"
    /\ file_index' = 1
    /\ UNCHANGED << dataset_metadata, files, outputs, metadata_catalog >>
    /\ UNCHANGED << schemaVars, transformVars, metadataVars >>

\* Lines 97-105: a file that load_file cannot read is skipped.
SkipUnreadable ==
    /\ pc = "ingest"
    /\ file_index <= Len(files)
    /\ ~files[file_index].load.loaded
    /\ file_index' = file_index + 1
    /\ UNCHANGED << pc, dataset_metadata, files, outputs, metadata_catalog >>
    /\ UNCHANGED << schemaVars, transformVars, metadataVars >>

\* Lines 97-120: a file that loads is cleaned and its file_info appended.
IngestFile ==
    /\ pc = "ingest"
    /\ file_index <= Len(files)
    /\ files[file_index].load.loaded
    /\ all_file_info' =
         Append(all_file_info,
                [ filename |-> files[file_index].filename,
                  format |-> "CSV",
                  columns |-> ColumnNames(files[file_index].load.table),
                  cleaned_df |-> files[file_index].load.table,
                  stats |-> ExtractStats(files[file_index].load.table) ])
    /\ file_index' = file_index + 1
    /\ UNCHANGED << pc, dataset_metadata, files, outputs, metadata_catalog >>
    /\ UNCHANGED << all_columns_list, response, schema, validation_result, result >>
    /\ UNCHANGED << transformVars, metadataVars >>

\* Lines 122-124: after the loop, return when no file could be processed.
EndIngest ==
    /\ pc = "ingest"
    /\ file_index > Len(files)
    /\ pc' = IF all_file_info = << >> THEN "stopped_none_processed" ELSE "schema"
    /\ UNCHANGED << schemaVars, transformVars, metadataVars, runVars >>

\* Lines 127-128: generate_unified_schema(all_file_info) is called; its
\* steps are those of the state machine above.
CallGenerateSchema ==
    /\ pc = "schema"
    /\ pc' = "collect"
    /\ UNCHANGED << schemaVars, transformVars, metadataVars, runVars >>

\* Lines 128-152: the schema returned is saved, the transformer and the
\* metadata generator are built with it; return when it is falsy.
SaveSchema ==
    /\ pc \in { "returned", "returned_fallback" }
    /\ unified_schema' = result
    /\ pc' = IF Truthy(result) THEN "phase2" ELSE "stopped_no_schema"
    /\ outputs' = IF Truthy(result)
                  THEN outputs \cup { << "unified_schema.json", 0 >> }
                  ELSE outputs
    /\ file_index' = 1
    /\ UNCHANGED << dataset_metadata, files, metadata_catalog >>
    /\ UNCHANGED << df, column_mapping, df_transformed, returned >>
    /\ UNCHANGED << schemaVars, metadataVars >>

\* Lines 154-159: transform is called on the next file; its steps are those
\* of the state machine above.
TransformFile ==
    /\ pc = "phase2"
    /\ file_index <= Len(all_file_info)
    /\ df' = all_file_info[file_index].cleaned_df
    /\ column_mapping' = << >>
    /\ df_transformed' = << >>
    /\ pc' = "build_mapping"
    /\ UNCHANGED << unified_schema, returned, schemaVars, metadataVars, runVars >>

\* Lines 165-167: the harmonized CSV is written.
SaveHarmonized ==
    /\ pc = "transformed"
    /\ outputs' = outputs \cup { << "harmonized.csv", all_file_info[file_index].filename >> }
    /\ pc' = "metadata"
    /\ UNCHANGED << dataset_metadata, files, file_index, metadata_catalog >>
    /\ UNCHANGED << schemaVars, transformVars, metadataVars >>

\* Lines 168-170: to_csv raises PermissionError: continue with the next file.
SaveDenied ==
    /\ pc = "transformed"
    /\ file_index' = file_index + 1
    /\ pc' = "phase2"
    /\ UNCHANGED << dataset_metadata, files, outputs, metadata_catalog >>
    /\ UNCHANGED << schemaVars, transformVars, metadataVars >>

\* Lines 175-181: generate_metadata is called with the keyword arguments
\* scraped_metadata and stats, which its signature (metadata_generator.py
\* line 22) does not have: the call raises TypeError, which nothing catches.
CallGenerateMetadata ==
    /\ pc = "metadata"
    /\ pc' = "crashed"
    /\ UNCHANGED << schemaVars, transformVars, metadataVars, runVars >>

\* Lines 204-239: after the loop the catalog is written (results is empty,
\* so that the consistency check is skipped).
WriteCatalog ==
    /\ pc = "phase2"
    /\ file_index > Len(all_file_info)
    /\ outputs' = outputs \cup { << "metadata_catalog.json", Len(metadata_catalog) >> }
    /\ pc' = "complete"
    /\ UNCHANGED << dataset_metadata, files, file_index, metadata_catalog >>
    /\ UNCHANGED << schemaVars, transformVars, metadataVars >>

Next ==
    \/ UseLocalFiles
    \/ PortalSucceeds
    \/ PortalFails
    \/ GlobFiles
    \/ SkipUnreadable
    \/ IngestFile
    \/ EndIngest
    \/ CallGenerateSchema
    \/ SchemaNext
    \/ SaveSchema
    \/ TransformFile
    \/ TransformNext
    \/ SaveHarmonized
    \/ SaveDenied
    \/ CallGenerateMetadata
    \/ WriteCatalog

Spec == RunInit /\ [][Next]_vars


\* ========================================================================
\* Claims
\* ========================================================================

\* Every column of the vocabulary is listed by a standard column of cm.
Covers(cm, all_columns) ==
    \A col \in Elems(all_columns) : col \in MappedColumns(cm)

\* The number of standard columns of cm that list col.
ListedBy(cm, col) == { i \in 1..Len(cm) : InList(col, cm[i].variations) }

\* No column of the vocabulary is listed by two standard columns of cm.
AtMostOnce(cm, all_columns) ==
    \A col \in Elems(all_columns) : Cardinality(ListedBy(cm, col)) <= 1

\* C1: on the inference path, the schema generate_unified_schema returns
\* after validation and repair lists every raw column name of the
\* vocabulary in at least one standard column's variant set.
C1_InferenceCoverage ==
    pc = "returned" => Covers(result.column_mappings, all_columns_list)

\* C2: on the inference path, the returned schema lists no raw column name
\* of the vocabulary in more than one standard column's variant set,
\* whatever candidate the inference step returned.
C2_InferenceAtMostOnce ==
    pc = "returned" => AtMostOnce(result.column_mappings, all_columns_list)

\* C3: the fallback schema lists every raw column name of the vocabulary in
\* at least one variant set, also when two unmatched raw names reduce to
\* the same singleton standard name.
C3_FallbackCoverage ==
    pc = "returned_fallback" => Covers(result.column_mappings, all_columns_list)

\* C4: the fallback schema lists no raw column name in more than one
\* standard column's variant set, also when a normalized name contains
\* keyword patterns of several standard columns.
C4_FallbackAtMostOnce ==
    pc = "returned_fallback" => AtMostOnce(result.column_mappings, all_columns_list)

\* The candidate the response text parses to, and whether validating or
\* repairing it fails.
ParsedCandidate == SchemaParseResponse(response.text).value

ValidationOrRepairFails ==
    LET v == ValidateSchema(ParsedCandidate, all_columns_list)
    IN  \/ v.raised
        \/ ~v.valid /\ AutoFixMissingColumns(ParsedCandidate, v.unmapped).raised

\* C5: generate_unified_schema always returns a schema and never raises;
\* when the inference call raises, when the response is no parsable JSON,
\* when the parsed schema is empty, or when validation or repair fails on a
\* malformed candidate, the result is the deterministic fallback schema.
C5_NeverRaisesFallsBack ==
    /\ pc # "raised"
    /\ pc \in { "returned", "returned_fallback" } =>
        /\ result.kind = "dict"
        /\ ( \/ response.raised
             \/ ~Truthy(ParsedCandidate)
             \/ ValidationOrRepairFails )
           => /\ pc = "returned_fallback"
              /\ result = CreateFallbackSchema(all_columns_list)

\* A run where the repair of a candidate without column_types failed and
\* the fallback schema was returned.
C5_Witness ==
    /\ pc = "returned_fallback"
    /\ ~response.raised
    /\ ~validation_result.raised
    /\ Len(validation_result.unmapped) > 0
    /\ result = CreateFallbackSchema(all_columns_list)

\* The standard columns of cm that list col verbatim.
ListingStandards(cm, col) ==
    { cm[k].standard_col : k \in { i \in 1..Len(cm) : InList(col, cm[i].variations) } }

\* C6: a raw column name that exactly one standard column S lists verbatim
\* is matched to S by _find_best_match, whatever the schema's order and
\* whatever another standard column matches case-insensitively or fuzzily;
\* in particular the singleton column of a repair is matched exactly.
C6_ExactMatchPrecedence ==
    pc \in { "rename", "convert", "reorder", "transformed" } =>
        \A i \in 1..Len(df) :
            \A S \in ListingStandards(unified_schema.column_mappings, df[i].name) :
                ListingStandards(unified_schema.column_mappings, df[i].name) = { S }
                => /\ df[i].name \in DOMAIN column_mapping
                   /\ column_mapping[df[i].name] = S

\* The name transform gives a raw column: its matched standard column, or
\* its own name when no layer matched.
OutputName(raw) ==
    IF FindBestMatch(unified_schema.column_mappings, raw) # << >>
    THEN FindBestMatch(unified_schema.column_mappings, raw)
    ELSE raw

\* C7: transform loses no column: every raw column of the input table is in
\* the output table exactly once, under its matched standard name or, when
\* nothing matched, its own; the returned mapping holds exactly the matched
\* columns.
C7_NoColumnLost ==
    pc = "transformed" =>
        /\ \A i \in 1..Len(df) :
              /\ Cardinality({ j \in 1..Len(df_transformed) :
                                 df_transformed[j].raw = df[i].name }) = 1
              /\ \A j \in 1..Len(df_transformed) :
                    df_transformed[j].raw = df[i].name
                    => df_transformed[j].name = OutputName(df[i].name)
        /\ Len(df_transformed) = Len(df)
        /\ DOMAIN column_mapping =
              { c \in Elems(ColumnNames(df)) :
                  FindBestMatch(unified_schema.column_mappings, c) # << >> }
        /\ \A c \in DOMAIN column_mapping :
              column_mapping[c] = FindBestMatch(unified_schema.column_mappings, c)

\* A transformed table with a matched column that was renamed and an
\* unmatched column that kept its name.
C7_Witness ==
    /\ pc = "transformed"
    /\ \E i \in 1..Len(df) :
          /\ df[i].name \in DOMAIN column_mapping
          /\ column_mapping[df[i].name] # df[i].name
    /\ \E i \in 1..Len(df) :
          /\ df[i].name \notin DOMAIN column_mapping
          /\ \E j \in 1..Len(df_transformed) : df_transformed[j].name = df[i].name

\* C8: in the output of transform, in every column typed integer or float,
\* every cell that was not numeric is missing, cell by cell, whatever the
\* other cells of the column hold.
C8_NonNumericBecomesMissing ==
    pc = "transformed" =>
        \A j \in 1..Len(df_transformed) :
            LET c == df_transformed[j]
            IN  ( /\ c.name \in DOMAIN unified_schema.column_types
                  /\ unified_schema.column_types[c.name] \in { "integer", "float" } )
                => \A i \in 1..Len(df) :
                      df[i].name = c.raw
                      => \A r \in 1..Len(c.cells) :
                            df[i].cells[r].kind = "text" => c.cells[r].kind = "missing"

\* The response text parses to a JSON object.
ParsesToObject(text) ==
    LET cleaned == StripWs(StripMarkdown(StripWs(text)))
    IN  JsonLoadsOk(cleaned) /\ cleaned[1].v.kind = "dict"

\* The record has catalog_info with title, description, sector and
\* keywords, and provenance.
HasTemplateSections(record) ==
    /\ { "catalog_info", "provenance" } \subseteq DOMAIN record
    /\ record.catalog_info.kind = "dict"
    /\ { "title", "description", "sector", "keywords" }
          \subseteq DOMAIN record.catalog_info.fields
    /\ record.provenance.kind = "dict"

\* C10: when the response of the metadata inference does not parse to a JSON
\* object, generate_metadata returns the minimal template record, the one it
\* returns when the inference call fails, with catalog_info and provenance.
C10_ParseFailureYieldsTemplate ==
    ( /\ pc \in { "meta_returned", "meta_returned_fallback" }
      /\ ~response.raised
      /\ ~ParsesToObject(response.text) )
    => /\ result = FallbackMetadata(file_info, df_transformed, unified_schema).value
       /\ HasTemplateSections(result)

\* The run is over: it returned or an exception ended it.
RunOver ==
    pc \in { "stopped_extraction_failed", "stopped_no_files", "stopped_none_processed",
             "stopped_no_schema", "crashed", "complete" }

\* The files of the run for which a harmonized CSV was written.
Persisted == { o[2] : o \in { x \in outputs : x[1] = "harmonized.csv" } }

\* C9: a run that is over either had no usable input file or has written
\* the metadata catalog, with one record for every file that was
\* transformed and persisted.
C9_CatalogUnlessNoFiles ==
    RunOver =>
        \/ \A i \in 1..Len(files) : ~files[i].load.loaded
        \/ /\ << "metadata_catalog.json", Len(metadata_catalog) >> \in outputs
           /\ Len(metadata_catalog) = Cardinality(Persisted)

\* generate_metadata has returned a record.
MetaReturned == pc \in { "meta_returned", "meta_returned_fallback" }

\* q is the mean of the three scores rounded to the hundredth (the scores
\* are in hundredths, so a third of their sum is never half-way between two
\* hundredths).
IsRoundedMean(q, a, b, c) ==
    /\ 3 * q - (a + b + c) <= 1
    /\ (a + b + c) - 3 * q <= 1

\* C11: in every record generate_metadata returns, on the normal path and
\* on the fallback path, metadata_completeness, data_completeness and
\* schema_coverage lie in [0,1] and quality_score is their arithmetic mean
\* rounded to two decimals.
C11_QualityScoreBounds ==
    MetaReturned =>
        LET q == result.quality_metrics
        IN  /\ q.metadata_completeness \in 0..100
            /\ q.data_completeness \in 0..100
            /\ q.schema_coverage \in 0..100
            /\ IsRoundedMean(q.quality_score, q.metadata_completeness,
                             q.data_completeness, q.schema_coverage)

\* A record of the normal path whose three scores differ: some required
\* field is empty, some cell is missing and some column is unmapped.
C11_Witness ==
    /\ pc = "meta_returned"
    /\ result.quality_metrics.metadata_completeness \in 1..99
    /\ result.quality_metrics.data_completeness \in 1..99
    /\ result.quality_metrics.schema_coverage \in 1..99
    /\ result.quality_metrics.quality_score \in 1..99

InWindowYears ==
    { NumberOf(df[kr[1]].cells[kr[2]].val) :
        kr \in { p \in YearColumns(df) \X (1..RowCount(df)) :
                    /\ df[p[1]].cells[p[2]].kind = "num"
                    /\ NumberOf(df[p[1]].cells[p[2]].val) >= 19000
                    /\ NumberOf(df[p[1]].cells[p[2]].val) <= 20300 } }

\* C13: the temporal range of the statistics is built from the minimum and
\* the maximum of the year values inside the window 1900-2030 only (one
\* year when they are equal, 'min-max' otherwise), values outside never
\* contribute, and the range is 'Unknown' when no value is in the window.
C13_RangeFromWindowOnly ==
    pc = "stats_extracted" =>
        LET range_str == file_info.stats.temporal.range_str
        IN  IF InWindowYears = {}
            THEN range_str.text = "Unknown"
            ELSE /\ range_str.text = "years"
                 /\ range_str.arg = << Min(InWindowYears) \div 10,
                                       Max(InWindowYears) \div 10 >>

\* The same with the window read as open, 1900 < year < 2030, as
\* _get_temporal_range tests it.
RangeFromOpenWindow ==
    pc = "stats_extracted" =>
        LET range_str == file_info.stats.temporal.range_str
            inside == { n \in InWindowYears : n > 19000 /\ n < 20300 }
        IN  IF inside = {}
            THEN range_str.text = "Unknown"
            ELSE /\ range_str.text = "years"
                 /\ range_str.arg = << Min(inside) \div 10, Max(inside) \div 10 >>

\* The temporal coverage of a record, as a set: empty when the record has
\* none.
TemporalCoverageOf(record) ==
    IF /\ "spatial_temporal" \in DOMAIN record
       /\ record.spatial_temporal.kind = "dict"
       /\ "temporal_coverage" \in DOMAIN record.spatial_temporal.fields
    THEN { record.spatial_temporal.fields.temporal_coverage }
    ELSE {}

\* C14: the temporal coverage of the record generate_metadata returns for a
\* file is the range the statistics of that file's cleaned table give: it is
\* never a text the inference step answered and never a year outside the
\* window 1900-2030.
C14_TemporalCoverageFromStats ==
    MetaReturned =>
        LET range_str == GetTemporalRange(df).range_str
        IN  \A tc \in TemporalCoverageOf(result) :
                /\ tc.text = range_str.text
                /\ tc.arg = range_str.arg

\* C15: when the metadata step of a file is given scraped portal metadata
\* that carries a title, it yields a record whose title is the scraped
\* title, whatever the inference step answered.
C15_ScrapedTitleOverrides ==
    [][ ( /\ pc = "metadata"
          /\ dataset_metadata.kind = "dict"
          /\ dataset_metadata.title # "" )
        => /\ Len(metadata_catalog') = Len(metadata_catalog) + 1
           /\ metadata_catalog'[Len(metadata_catalog')].catalog_info.fields.title.text
                = dataset_metadata.title ]_vars

\* Phase 2 of the run is under way or over.
Phase2Started ==
    pc \in { "phase2", "build_mapping", "rename", "convert", "reorder", "transformed",
             "metadata", "crashed", "complete" }

\* C16: no transform or metadata step of a file starts before every file
\* has been ingested and the unified schema has been produced, and no step
\* of Phase 2 modifies the unified schema.
C16_SchemaFixedBeforePhase2 ==
    /\ [](Phase2Started =>
            /\ Len(all_file_info) = Cardinality({ i \in 1..Len(files) : files[i].load.loaded })
            /\ Truthy(unified_schema)
            /\ unified_schema = result)
    /\ [][Phase2Started => unified_schema' = unified_schema]_vars

\* The second file of a batch has been transformed, with the schema that
\* Phase 1 produced from both files.
C16_Witness ==
    /\ pc = "transformed"
    /\ file_index = 2
    /\ Len(all_file_info) = 2
    /\ DOMAIN column_mapping # {}
    /\ unified_schema = result

\* The columns of the harmonized table are the standard columns in the
\* schema's order, then the other columns in the order they had in the
\* input table.
StandardFirst ==
    LET cm == unified_schema.column_mappings
        place(name) == DictIndex(cm, name)
        origin(j) == CHOOSE i \in 1..Len(df) : df[i].name = df_transformed[j].raw
    IN  \A i, j \in 1..Len(df_transformed) :
            i < j =>
                LET a == df_transformed[i].name
                    b == df_transformed[j].name
                IN  /\ DictHas(cm, b) => DictHas(cm, a) /\ place(a) <= place(b)
                    /\ ~DictHas(cm, a) => ~DictHas(cm, b) /\ origin(i) < origin(j)

\* The table of no rows with the header h.
HeaderOnly(h) == [ i \in 1..Len(h) |-> [ name |-> h[i], raw |-> h[i], cells |-> << >> ] ]

\* The set of standard columns that the mapping maps the header onto, for a
\* header whose columns are all mapped (the empty set otherwise).
MappedOnto(mapping, h) ==
    IF DOMAIN mapping = Elems(h) THEN { mapping[c] : c \in DOMAIN mapping } ELSE {}

\* C17: the harmonized table lists the standard columns first, in the
\* schema's order, then the unmapped columns in their original order; and
\* two files whose raw columns map onto the same set of standard columns get
\* the same column list, in the same order.
C17_SameStandardsSameColumns ==
    pc = "transformed" =>
        /\ StandardFirst
        /\ \A h \in TableHeaders :
              LET other == Transform(unified_schema, HeaderOnly(h))
              IN  ( /\ MappedOnto(column_mapping, ColumnNames(df)) # {}
                    /\ MappedOnto(other.mapping, h) = MappedOnto(column_mapping, ColumnNames(df)) )
                  => ColumnNames(other.df) = ColumnNames(df_transformed)

\* The first half of C17 alone: the order of the columns of one table.
ColumnOrderOfOneTable == pc = "transformed" => StandardFirst

\* The raw columns that the schema assigns to the removal sentinel.
SentinelColumns ==
    { c \in DOMAIN column_mapping : column_mapping[c] = Std_DROP }

\* C18: a raw column that the schema assigns to the removal sentinel 'DROP'
\* does not appear in the harmonized table returned by transform, neither
\* under its own name nor under the sentinel's.
C18_SentinelColumnsRemoved ==
    pc = "transformed" =>
        \A i \in 1..Len(df_transformed) :
            /\ df_transformed[i].raw \notin SentinelColumns
            /\ df_transformed[i].name # Std_DROP

\* The technical fields of the record equal the values of the harmonized
\* table and of the mapping that transform returned.
TechnicalFieldsOfTable ==
    LET t == result["technical_metadata"]
    IN  /\ t.row_count = RowCount(df_transformed)
        /\ t.column_count = Len(df_transformed)
        /\ t.columns = ColumnNames(df_transformed)
        /\ DOMAIN t.transformations_applied = DOMAIN column_mapping
        /\ \A c \in DOMAIN column_mapping : t.transformations_applied[c] = column_mapping[c]

\* C19: the technical fields of every record (row count, column count,
\* column list, transformation mapping) equal the values of the harmonized
\* table and of the transformer's mapping, on the normal path and on the
\* fallback path alike.
C19_TechnicalFieldsFromTable == MetaReturned => TechnicalFieldsOfTable

\* The technical fields on the normal path alone.
TechnicalFieldsOnNormalPath == pc = "meta_returned" => TechnicalFieldsOfTable

\* The fields computed from the table (all but the mapping) on both paths.
TableFieldsOnBothPaths ==
    MetaReturned =>
        LET t == result["technical_metadata"]
        IN  /\ t.row_count = RowCount(df_transformed)
            /\ t.column_count = Len(df_transformed)
            /\ t.columns = ColumnNames(df_transformed)

\* What the loop of the matcher leaves for the raw name c: the fuzzy
\* candidate and the best score over all variants.
FuzzyCandidate(c) == MatchLoop(unified_schema.column_mappings, 1, c, << >>, 0)

\* The raw names of the table that strategies 1 and 2 do not match and whose
\* best fuzzy score is below the threshold, with a candidate.
BelowThreshold ==
    { c \in Elems(ColumnNames(df)) :
        /\ ~FuzzyCandidate(c).returned
        /\ FuzzyCandidate(c).best_match # << >>
        /\ ~MatchAccepts(FuzzyCandidate(c).best_score) }

\* The similarity of the raw name c and the display name of its candidate.
OwnNameScore(c) ==
    FuzzRatio(NormalizeString(c), NormalizeString(FuzzyCandidate(c).best_match))

\* C20: when the best fuzzy score of a raw name over all variants is below
\* 85, the matcher returns the fuzzy candidate exactly when the similarity of
\* the normalized raw name and the normalized display name of the candidate
\* itself is at least 85, and no match otherwise.
C20_CandidateOwnDisplayName ==
    pc = "transformed" =>
        \A c \in BelowThreshold :
            IF MatchAccepts(OwnNameScore(c))
            THEN c \in DOMAIN column_mapping
                 /\ column_mapping[c] = FuzzyCandidate(c).best_match
            ELSE c \notin DOMAIN column_mapping

\* No variant of any standard column equals the raw name c, exactly or
\* ignoring case.
NoExactMatch(c) ==
    \A i \in 1..Len(unified_schema.column_mappings) :
        /\ ~InList(c, unified_schema.column_mappings[i].variations)
        /\ ~InLowered(Strip(Lower(c)), unified_schema.column_mappings[i].variations)

\* The similarity of the raw name c and the j-th variant of the i-th
\* standard column, both normalized.
VariantScore(c, i, j) ==
    FuzzRatio(NormalizeString(c),
              NormalizeString(unified_schema.column_mappings[i].variations[j]))

\* The scores of the raw name c against the variants of the i-th standard
\* column.
ScoresOf(c, i) ==
    { VariantScore(c, i, j) : j \in 1..Len(unified_schema.column_mappings[i].variations) }

\* The highest score of c over all variants of all standard columns (0
\* when there is no variant).
TopScore(c) ==
    Max({ 0 } \cup UNION { ScoresOf(c, i) : i \in 1..Len(unified_schema.column_mappings) })

\* The standard columns that own a variant with the top score.
TopColumns(c) ==
    { i \in 1..Len(unified_schema.column_mappings) : TopScore(c) \in ScoresOf(c, i) }

\* The first of them in the schema's order; None when every score is 0.
FirstTopColumn(c) ==
    IF TopScore(c) = 0 THEN << >>
    ELSE unified_schema.column_mappings[Min(TopColumns(c))].standard_col

NameScore(u, entry) ==
    FuzzRatio(NormalizeMissing(u), NormalizeStandard(entry.standard_col))

\* The best similarity of u over a standard column's own name and each of
\* its normalized variants.
NameOrVariantScore(u, entry) ==
    Max({ NameScore(u, entry) }
        \cup { FuzzRatio(NormalizeMissing(u), NormalizeMissing(entry.variations[j])) :
                 j \in 1..Len(entry.variations) })

\* The repair has returned: the step from "autofix" to "returned".
Repaired == pc = "autofix" /\ pc' = "returned"

\* The raw name that the repair handles last.
LastUnmapped == validation_result.unmapped[Len(validation_result.unmapped)]

\* The standard columns that exist when the repair comes to the last
\* unmapped raw name: those the loop has left after the names before it.
ExistingColumns ==
    AutoFixLoop(schema,
                SubSeq(validation_result.unmapped, 1, Len(validation_result.unmapped) - 1),
                1).schema.column_mappings

\* The repaired schema holds the raw name u in the variants of one of the
\* standard columns tops of cm.
AppendedToOneOf(u, cm, tops) ==
    \E i \in tops :
        /\ DictHas(result'.column_mappings, cm[i].standard_col)
        /\ InList(u, DictGet(result'.column_mappings, cm[i].standard_col))

\* The repaired schema holds a new standard column whose only variant is u
\* and whose type is string.
NewSingleton(u, cm) ==
    /\ \A i \in 1..Len(cm) : cm[i].standard_col # SingletonName(u)
    /\ DictHas(result'.column_mappings, SingletonName(u))
    /\ DictGet(result'.column_mappings, SingletonName(u)) = << u >>
    /\ SingletonName(u) \in DOMAIN result'.column_types
    /\ result'.column_types[SingletonName(u)] = "string"

\* C22: schema repair decides for an unmapped raw name by its best
\* similarity over every existing standard column's own name and each of
\* its normalized variants: above 70 the raw name is appended to that
\* column's variants, otherwise a new standard column of type string is
\* created whose only variant is the raw name.
C22_RepairByNameAndVariants ==
    [][ Repaired =>
          LET u    == LastUnmapped
              cm   == ExistingColumns
              best == Max({ 0 } \cup { NameOrVariantScore(u, cm[i]) : i \in 1..Len(cm) })
          IN  IF best > 70
              THEN AppendedToOneOf(u, cm, { i \in 1..Len(cm) :
                                              NameOrVariantScore(u, cm[i]) = best })
              ELSE NewSingleton(u, cm) ]_vars

\* The same decision taken on the standard columns' own names alone; the
\* name of the new column may be one that exists.
RepairByNameAlone ==
    [][ Repaired =>
          LET u    == LastUnmapped
              cm   == ExistingColumns
              best == Max({ 0 } \cup { NameScore(u, cm[i]) : i \in 1..Len(cm) })
          IN  IF best > 70
              THEN AppendedToOneOf(u, cm, { i \in 1..Len(cm) : NameScore(u, cm[i]) = best })
              ELSE \/ NewSingleton(u, cm)
                   \/ /\ DictHas(cm, SingletonName(u))
                      /\ DictGet(result'.column_mappings, SingletonName(u)) = << u >> ]_vars

\* The fraction, in hundredths, of the columns of the harmonized table that
\* were mapped to a standard column.
MappedFraction ==
    RoundDiv(100 * Cardinality({ i \in 1..Len(df_transformed) :
                                   df_transformed[i].raw \in DOMAIN column_mapping }),
             Len(df_transformed))

\* C23: schema_coverage in the quality block equals the number of columns
\* of the harmonized table that were mapped to a standard column divided by
\* the table's column count, for every table with at least one column,
\* whatever its row count, on the normal and the fallback path alike.
C23_SchemaCoverageIsMappedFraction ==
    ( MetaReturned /\ Len(df_transformed) >= 1 ) =>
        result["quality_metrics"].schema_coverage = MappedFraction

\* The same for the tables with at least one row, on the normal path.
CoverageOfNonEmptyOnNormalPath ==
    ( pc = "meta_returned" /\ Len(df_transformed) >= 1 /\ RowCount(df_transformed) >= 1 ) =>
        result["quality_metrics"].schema_coverage = MappedFraction

\* C24: the data_completeness sub-score of a file's record equals the
\* completeness ratio that the stats extractor computed for that file on the
\* cleaned table.
C24_CompletenessFromStats ==
    MetaReturned =>
        result["quality_metrics"].data_completeness
            = ExtractStats(df).quality.completeness_score

\* The sub-score is the completeness ratio of the harmonized table.
CompletenessOfHarmonized ==
    MetaReturned =>
        result["quality_metrics"].data_completeness
            = GetDataQuality(df_transformed).completeness_score

\* The files of Phase 2 whose harmonized table could not be written: the
\* loop has gone past them and their output is not there.
SaveFailed ==
    { i \in 1..Len(all_file_info) :
        /\ Phase2Started
        /\ i < file_index
        /\ << "harmonized.csv", all_file_info[i].filename >> \notin outputs }

\* C25: a failure to write one file's outputs skips that file's outputs
\* only: the run does not abort, and when it reaches the final summary
\* every other file has been persisted and entered in the catalog.
C25_WriteFailureSkipsOneFile ==
    SaveFailed # {} =>
        /\ pc # "crashed"
        /\ pc = "complete" =>
              /\ \A j \in (1..Len(all_file_info)) \ SaveFailed :
                    << "harmonized.csv", all_file_info[j].filename >> \in outputs
              /\ Len(metadata_catalog) = Len(all_file_info) - Cardinality(SaveFailed)

\* A failure to write a harmonized table does not end the run at that
\* file: the loop goes on with the next file.
SaveFailureGoesOn ==
    [][ ( pc = "transformed" /\ << "harmonized.csv", all_file_info[file_index].filename >>
                                    \notin outputs' )
        => ( pc' = "phase2" /\ file_index' = file_index + 1 ) ]_vars

\* The names of the files of a listing that load, in the listing's order:
\* the order of all_file_info, which the Phase 2 loop follows.
LoadableNames(listing) ==
    LET loadable == SelectSeq(listing, LAMBDA f : f.load.loaded)
    IN  [ i \in 1..Len(loadable) |-> loadable[i].filename ]

\* What the Phase 2 loop and the catalog step persist from the i-th name
\* on, when to_csv is denied for the names of denied: the loop goes past a
\* denied file, and the metadata call of the first file that is written
\* ends the run.
RECURSIVE Phase2Outputs(_, _, _)
Phase2Outputs(names, i, denied) ==
    IF i > Len(names) THEN { << "metadata_catalog.json", 0 >> }
    ELSE IF names[i] \in denied THEN Phase2Outputs(names, i + 1, denied)
    ELSE { << "harmonized.csv", names[i] >> }

\* The outputs of a run on a listing whose schema is saved.
OutputsOf(listing, denied) ==
    { << "unified_schema.json", 0 >> } \cup Phase2Outputs(LoadableNames(listing), 1, denied)

\* The listings of the same files in every order.
Permuted(listing) ==
    { [ i \in 1..Len(listing) |-> listing[p[i]] ] :
        p \in { q \in [ 1..Len(listing) -> 1..Len(listing) ] :
                  \A a, b \in 1..Len(listing) : q[a] = q[b] => a = b } }

\* The run is over, after Phase 2.
Phase2Over == pc \in { "crashed", "complete" }

\* The names of the files whose harmonized table could not be written.
DeniedNames == { all_file_info[i].filename : i \in SaveFailed }

\* C26: the persisted outputs of the batch do not depend on the order in
\* which the input files are listed and processed: a run on any permutation
\* of the same files, with the same files unwritable, persists the same
\* outputs.
C26_OutputsIndependentOfOrder ==
    Phase2Over => \A listing \in Permuted(files) : OutputsOf(listing, DeniedNames) = outputs

\* The outputs of the run are those of its own listing.
OutputsFollowListing == Phase2Over => OutputsOf(files, DeniedNames) = outputs

\* The year columns of the table df hold the number n, in tenths.
YearColumnHolds(n) ==
    \E k \in YearColumns(df) : \E r \in 1..RowCount(df) :
        df[k].cells[r].kind = "num" /\ NumberOf(df[k].cells[r].val) = n

\* C27: the year window includes its endpoints: a numeric value of exactly
\* 1900 or exactly 2030 in a year column is kept as a valid year, so that the
\* reported range starts no later than 1900, or ends no earlier than 2030.
C27_WindowIncludesEndpoints ==
    pc = "stats_extracted" =>
        LET temporal == file_info.stats.temporal
        IN  /\ YearColumnHolds(19000) =>
                  temporal.min_year # << >> /\ temporal.min_year[1] <= 1900
            /\ YearColumnHolds(20300) =>
                  temporal.max_year # << >> /\ temporal.max_year[1] >= 2030

\* C28: the harmonized table returned by transform has pairwise distinct
\* column names: no two raw columns of a file end up under the same output
\* name.
C28_DistinctOutputNames ==
    pc = "transformed" =>
        \A i, j \in 1..Len(df_transformed) :
            df_transformed[i].name = df_transformed[j].name => i = j

\* The output names are pairwise distinct when no two raw columns of the
\* table are given the same name by the matcher.
DistinctWhenMatcherInjective ==
    ( /\ pc = "transformed"
      /\ \A a, b \in 1..Len(df) : OutputName(df[a].name) = OutputName(df[b].name) => a = b )
    => \A i, j \in 1..Len(df_transformed) :
            df_transformed[i].name = df_transformed[j].name => i = j

\* The cells of the raw column of the cleaned table df that the harmonized
\* column j comes from.
CleanedCells(j) ==
    df[CHOOSE i \in 1..Len(df) : df[i].name = df_transformed[j].raw].cells

\* C29: type coercion to the schema type string does not change which cells
\* are missing: a cell that is missing in the cleaned table is still missing
\* in the harmonized table, never a text value.
C29_StringKeepsMissing ==
    pc = "transformed" =>
        \A j \in 1..Len(df_transformed) :
            ( /\ df_transformed[j].name \in DOMAIN unified_schema.column_types
              /\ unified_schema.column_types[df_transformed[j].name] = "string" )
            => \A r \in 1..RowCount(df) :
                  CleanedCells(j)[r].kind = "missing"
                  => df_transformed[j].cells[r].kind = "missing"

\* Coercion to string leaves the cells that are not missing not missing.
StringKeepsPresent ==
    pc = "transformed" =>
        \A j \in 1..Len(df_transformed) :
            ( /\ df_transformed[j].name \in DOMAIN unified_schema.column_types
              /\ unified_schema.column_types[df_transformed[j].name] = "string" )
            => \A r \in 1..RowCount(df) :
                  CleanedCells(j)[r].kind # "missing"
                  => df_transformed[j].cells[r].kind # "missing"

\* The harmonized table as the input of a further call: each column is a
\* raw column under the name it has now.
AsInput(frame) == [ i \in 1..Len(frame) |-> [ frame[i] EXCEPT !.raw = frame[i].name ] ]

\* C30: harmonized tables are a fixed point of the transformer: transform
\* with the same schema on a table that transform produced returns the same
\* column names in the same order.
C30_ColumnNamesFixedPoint ==
    pc = "transformed" =>
        ColumnNames(Transform(unified_schema, AsInput(df_transformed)).df)
            = ColumnNames(df_transformed)


====
